---- MODULE Spec2Model ----
(***************************************************************************)
(* Template-to-scene compilation of video_promo_maker:                     *)
(*   - replaceVariables / fillTemplate        (src/lib/brand.ts)           *)
(*   - processTemplate / processSection       (src/lib/template.ts, the    *)
(*     latest variant, lines 267-513)                                      *)
(*   - the hand-off of the scene list to createEnhancedVideo               *)
(*     (createBrandedVideo, src/unnamed/part_011)                          *)
(*                                                                         *)
(* Strings that go through the variable resolver are sequences of lexemes: *)
(* "{" and "}" are the brace characters, every other lexeme is a run of    *)
(* word characters (\w) that is treated as a unit.                         *)
(***************************************************************************)
EXTENDS Integers, Sequences, FiniteSets, TLC

\* ------------------------------------------------------------------ bounds
MaxTextLen == 6

\* ------------------------------------------------- JavaScript value model
\* the value `undefined` of a text-valued property (content, prompt, a
\* missing key of the variable map)
Undefined == <<"undefined">>

\* what String(Object) gives: the value inherited under the key
\* "constructor" by every plain object, converted by String.replace
ObjectFunctionText == <<"function Object() { [native code] }">>

\* property names every plain object inherits from Object.prototype
\* (of these only "constructor" is in the lexeme alphabet of the model)
ObjectPrototypeKeys == {<<"constructor">>}

WordLexemes == {"a", "b", "constructor"}

Lexemes == {"{", "}"} \cup WordLexemes

\* JavaScript truthiness of a text value: undefined and "" are falsy
Truthy(v) == v # Undefined /\ v # <<>>

\* variables[key]: own property first, then the prototype chain
GetProperty(variables, key) ==
  IF key \in DOMAIN variables THEN variables[key]
  ELSE IF key \in ObjectPrototypeKeys THEN ObjectFunctionText
  ELSE Undefined

\* ----------------------------------------------------- replaceVariables
\* end of the maximal run of word characters that starts at position i
\* (i - 1 when text[i] is not a word character): the greedy \w+
RECURSIVE WordRunEnd(_, _)
WordRunEnd(text, i) ==
  IF i <= Len(text) /\ text[i] \in WordLexemes
  THEN WordRunEnd(text, i + 1)
  ELSE i - 1

\* the callback of text.replace: (match, key) => variables[key] || match
ReplaceCallback(match, key, variables) ==
  IF Truthy(GetProperty(variables, key))
  THEN GetProperty(variables, key)
  ELSE match

\* text.replace(/\{(\w+)\}/g, callback), scanning from position i; the
\* replacement text is not scanned again
RECURSIVE ReplaceFrom(_, _, _)
ReplaceFrom(text, i, variables) ==
  IF i > Len(text) THEN <<>>
  ELSE IF text[i] = "{"
          /\ WordRunEnd(text, i + 1) >= i + 1
          /\ WordRunEnd(text, i + 1) + 1 <= Len(text)
          /\ text[WordRunEnd(text, i + 1) + 1] = "}"
       THEN LET j == WordRunEnd(text, i + 1)
            IN  ReplaceCallback(SubSeq(text, i, j + 1), SubSeq(text, i + 1, j), variables)
                  \o ReplaceFrom(text, j + 2, variables)
       ELSE <<text[i]>> \o ReplaceFrom(text, i + 1, variables)

replaceVariables(text, variables) == ReplaceFrom(text, 1, variables)

\* ------------------------------------------------- inputs of the resolver
RECURSIVE SeqsUpTo(_, _)
SeqsUpTo(S, n) ==
  IF n = 0 THEN {<<>>}
  ELSE LET shorter == SeqsUpTo(S, n - 1)
       IN  shorter \cup {Append(s, x) : s \in {t \in shorter : Len(t) = n - 1}, x \in S}

ResolverTexts == SeqsUpTo(Lexemes, MaxTextLen)

\* variable maps: "a" absent, empty or "X"; "b" absent or "Y"
ResolverMaps ==
  { [k \in ks |-> IF k = <<"a">> THEN va ELSE <<"Y">>] :
      ks \in SUBSET {<<"a">>, <<"b">>}, va \in {<<>>, <<"X">>} }

\* ------------------------------------------------------------ fillTemplate
\* an argument that may be absent (null / undefined): the empty set, or
\* the singleton of its value
Null == {}

Some(v) == {v}

Val(o) == CHOOSE v \in o : TRUE

\* !template || !template.sections || !template.scriptTemplate
InvalidTemplate(template) ==
  \/ template = Null
  \/ "sections" \notin DOMAIN Val(template)
  \/ "scriptTemplate" \notin DOMAIN Val(template)
  \/ ~Truthy(Val(template).scriptTemplate)

\* { ...element, content: element.content ? replaceVariables(...) : undefined,
\*               prompt:  element.prompt  ? replaceVariables(...) : undefined }
FillElement(element, userInputs) ==
  [element EXCEPT
     !.content = IF Truthy(element.content)
                 THEN replaceVariables(element.content, userInputs)
                 ELSE Undefined,
     !.prompt  = IF Truthy(element.prompt)
                 THEN replaceVariables(element.prompt, userInputs)
                 ELSE Undefined]

FillSection(section, userInputs) ==
  [type     |-> section.type,
   duration |-> section.duration,
   elements |-> [m \in DOMAIN section.elements |->
                   FillElement(section.elements[m], userInputs)]]

\* the object literal built at brand.ts:221-235
FilledTemplate(t, userInputs) ==
  [templateName   |-> t.templateName,
   templateType   |-> t.templateType,
   scriptTemplate |-> replaceVariables(t.scriptTemplate, userInputs),
   sections       |-> [k \in DOMAIN t.sections |-> FillSection(t.sections[k], userInputs)],
   audioOptions   |-> t.audioOptions]

\* a JSON array of strings: the items behind a tag that no text starts with
ListTag == "[array]"

ListValue(items) == <<ListTag>> \o items

IsList(v) == v # <<>> /\ Head(v) = ListTag

\* text.replace(...) at brand.ts:245 when text is an array: arrays are
\* truthy and have no replace method, so the call throws a TypeError
ReplaceThrows(v) == Truthy(v) /\ IsList(v)

\* some replaceVariables call of the object literal of brand.ts:221-235
\* throws
FillThrows(t) ==
  \/ IsList(t.scriptTemplate)
  \/ \E k \in DOMAIN t.sections :
       \E m \in DOMAIN t.sections[k].elements :
         \/ ReplaceThrows(t.sections[k].elements[m].content)
         \/ ReplaceThrows(t.sections[k].elements[m].prompt)

\* a fill that writes the resolved texts into the caller's template and
\* returns that same object
fillTemplateInPlace(template, brandStyle, userInputs) ==
  IF InvalidTemplate(template)
  THEN [template |-> template, returned |-> Null, thrown |-> "Invalid template structure"]
  ELSE IF brandStyle = Null
  THEN [template |-> template, returned |-> Null, thrown |-> "Brand style is required"]
  ELSE IF userInputs = Null
  THEN [template |-> template, returned |-> Null, thrown |-> "User inputs are required"]
  ELSE [template |-> Some(FilledTemplate(Val(template), Val(userInputs))),
        returned |-> Some(FilledTemplate(Val(template), Val(userInputs))),
        thrown   |-> "none"]

\* a fill whose validation forgets the brand style
fillTemplateNoBrandCheck(template, brandStyle, userInputs) ==
  IF InvalidTemplate(template)
  THEN [template |-> template, returned |-> Null, thrown |-> "Invalid template structure"]
  ELSE IF userInputs = Null
  THEN [template |-> template, returned |-> Null, thrown |-> "User inputs are required"]
  ELSE [template |-> template,
        returned |-> Some(FilledTemplate(Val(template), Val(userInputs))),
        thrown   |-> "none"]

\* fillTemplate(template, brandStyle, userInputs): the state of the
\* caller's template object after the call (objects are passed by
\* reference), the returned value, and the message of the thrown Error
fillTemplate(template, brandStyle, userInputs) ==
  IF InvalidTemplate(template)
  THEN [template |-> template, returned |-> Null, thrown |-> "Invalid template structure"]
  ELSE IF brandStyle = Null
  THEN [template |-> template, returned |-> Null, thrown |-> "Brand style is required"]
  ELSE IF userInputs = Null
  THEN [template |-> template, returned |-> Null, thrown |-> "User inputs are required"]
  ELSE IF FillThrows(Val(template))
  THEN [template |-> template, returned |-> Null,
        thrown |-> "TypeError: text.replace is not a function"]
  ELSE [template |-> template,
        returned |-> Some(FilledTemplate(Val(template), Val(userInputs))),
        thrown   |-> "none"]

\* --------------------------------------------------------------- elements
\* VideoElement: every optional property is present, undefined when the
\* document omits it
UndefinedString == "undefined"

TextElement(content) ==
  [type |-> "text", content |-> content, prompt |-> Undefined,
   color |-> "#FFFFFF", position |-> "center", style |-> "heading",
   animation |-> "fade"]

ImageElement(prompt) ==
  [type |-> "image", content |-> Undefined, prompt |-> prompt,
   color |-> UndefinedString, position |-> UndefinedString,
   style |-> UndefinedString, animation |-> UndefinedString]

BackgroundElement(color) ==
  [type |-> "background", content |-> Undefined, prompt |-> Undefined,
   color |-> color, position |-> UndefinedString,
   style |-> UndefinedString, animation |-> UndefinedString]

\* brand/style-guide.json as loadBrandStyle returns it (the fields the
\* compiler reads)
DefaultBrandStyle ==
  [brandName |-> "Underground Existence", primaryColor |-> "#FF00FF",
   accentColor |-> "#00FF00", tone |-> "energetic"]

AudioOptions == [duration |-> 30, fadeIn |-> 1, fadeOut |-> 2]

\* ------------------------------------------------ the shipped templates
\* an element of a shipped document as far as fillTemplate reads it: its
\* type, content and prompt; the properties it copies unread are undefined
ShippedElement(type, content, prompt) ==
  [type |-> type, content |-> content, prompt |-> prompt,
   color |-> UndefinedString, position |-> UndefinedString,
   style |-> UndefinedString, animation |-> UndefinedString]

\* an imageSequence element: a prompts list, no content and no prompt
ImageSequenceElement(prompts) ==
  [type |-> "imageSequence", content |-> Undefined, prompt |-> Undefined,
   color |-> UndefinedString, position |-> "center",
   style |-> UndefinedString, animation |-> "crossfade",
   prompts |-> prompts]

\* the documents below keep the sections, the element types and the kind
\* of every content and prompt; a string is a placeholder, a word and a
\* placeholder, or a word
\* unnamed/part_003:1-78
ArtistPromoTemplate ==
  [templateName   |-> "Artist Promotion",
   templateType   |-> "artist-promo",
   scriptTemplate |-> <<"b", "{", "a", "}">>,
   sections       |->
  << [type |-> "intro", duration |-> 3,
      elements |->
        << ShippedElement("background", Undefined, Undefined),
           ShippedElement("text", <<"{", "a", "}">>, Undefined),
           ShippedElement("text", <<"{", "a", "}">>, Undefined) >>],
     [type |-> "content", duration |-> 22,
      elements |->
        << ShippedElement("image", Undefined, <<"b", "{", "a", "}">>),
           ShippedElement("text", <<"b", "{", "a", "}">>, Undefined),
           ShippedElement("text", <<"{", "a", "}">>, Undefined) >>],
     [type |-> "outro", duration |-> 5,
      elements |->
        << ShippedElement("background", Undefined, Undefined),
           ShippedElement("text", <<"{", "a", "}">>, Undefined) >>] >>,
   audioOptions   |-> AudioOptions]

\* unnamed/part_004:1-129
ProductAnnouncementTemplate ==
  [templateName   |-> "Product Announcement",
   templateType   |-> "product",
   scriptTemplate |-> <<"b", "{", "a", "}">>,
   sections       |->
  << [type |-> "intro", duration |-> 3,
      elements |->
        << ShippedElement("logo", Undefined, Undefined),
           ShippedElement("text", <<"{", "a", "}">>, Undefined) >>],
     [type |-> "productReveal", duration |-> 5,
      elements |->
        << ShippedElement("image", Undefined, <<"b", "{", "a", "}">>),
           ShippedElement("text", <<"b", "{", "a", "}">>, Undefined) >>],
     [type |-> "features", duration |-> 15,
      elements |->
        << ImageSequenceElement(
             ListValue(<<"A modern interface showing {productName} with {keyFeature1}, with sound waveforms and audio visualization, dark theme with purple accents",
                         "A music producer using {productName}, focusing on {keyFeature2}, with subtle blockchain visualization elements",
                         "A DJ or artist having complete control over their music with {productName}, demonstrating {keyFeature3}, with on-chain visualization">>)),
           ShippedElement("lowerThird",
             ListValue(<<"{keyFeature1}",
                 "{keyFeature2}",
                 "{keyFeature3}">>),
             Undefined) >>],
     [type |-> "testimonial", duration |-> 5,
      elements |->
        << ShippedElement("image", Undefined, <<"b", "{", "a", "}">>),
           ShippedElement("text", <<"b", "{", "a", "}">>, Undefined) >>],
     [type |-> "callToAction", duration |-> 5,
      elements |->
        << ShippedElement("background", Undefined, Undefined),
           ShippedElement("text", <<"{", "a", "}">>, Undefined),
           ShippedElement("text", <<"{", "a", "}">>, Undefined),
           ShippedElement("logo", Undefined, Undefined) >>] >>,
   audioOptions   |-> AudioOptions]

\* index.ts:57-205
BrandVideoTemplate ==
  [templateName   |-> "Brand Video",
   templateType   |-> "branding",
   scriptTemplate |-> <<"b", "{", "a", "}">>,
   sections       |->
  << [type |-> "intro", duration |-> 5,
      elements |->
        << ShippedElement("visualEffect", Undefined, Undefined),
           ShippedElement("logo", Undefined, Undefined),
           ShippedElement("text", <<"b">>, Undefined) >>],
     [type |-> "brandStory", duration |-> 15,
      elements |->
        << ImageSequenceElement(
             ListValue(<<"A dark digital landscape with purple and blue accents, showing audio waveforms and blockchain visualizations, representing the music revolution",
                         "Artists and musicians gaining control of their work through technology, shown in a retrofuturistic style with {accentColor} highlights",
                         "A visualization of on-chain music ownership, with digital tokens connected to music tracks, dark background with glowing elements">>)),
           ShippedElement("text", <<"b">>, Undefined) >>],
     [type |-> "values", duration |-> 15,
      elements |->
        << ImageSequenceElement(
             ListValue(<<"A musician with complete creative control, surrounded by digital interfaces showing blockchain transactions and music waveforms, dark stylish setting",
                         "A community of creators collaborating in a digital space with {primaryColor} and {accentColor} glowing elements, representing decentralization",
                         "A DJ or producer confidently managing their music assets through a futuristic interface with purple highlights">>)),
           ShippedElement("lowerThird",
             ListValue(<<"Decentralization",
                 "Creator Economy",
                 "True Ownership">>),
             Undefined) >>],
     [type |-> "problemSolution", duration |-> 10,
      elements |->
        << ShippedElement("splitScreen", Undefined, Undefined),
           ShippedElement("text", <<"b">>, Undefined) >>],
     [type |-> "callToAction", duration |-> 5,
      elements |->
        << ShippedElement("background", Undefined, Undefined),
           ShippedElement("visualEffect", Undefined, Undefined),
           ShippedElement("text", <<"b">>, Undefined),
           ShippedElement("text", <<"{", "a", "}">>, Undefined),
           ShippedElement("logo", Undefined, Undefined) >>] >>,
   audioOptions   |-> AudioOptions]

\* index.ts:206-344
EventTeaserTemplate ==
  [templateName   |-> "Event Teaser",
   templateType   |-> "event",
   scriptTemplate |-> <<"b", "{", "a", "}">>,
   sections       |->
  << [type |-> "intro", duration |-> 3,
      elements |->
        << ShippedElement("background", Undefined, Undefined),
           ShippedElement("text", <<"b">>, Undefined) >>],
     [type |-> "eventReveal", duration |-> 5,
      elements |->
        << ShippedElement("image", Undefined, <<"b", "{", "a", "}">>),
           ShippedElement("text", <<"{", "a", "}">>, Undefined) >>],
     [type |-> "dateReveal", duration |-> 3,
      elements |->
        << ShippedElement("background", Undefined, Undefined),
           ShippedElement("text", <<"{", "a", "}">>, Undefined),
           ShippedElement("text", <<"{", "a", "}">>, Undefined) >>],
     [type |-> "highlights", duration |-> 12,
      elements |->
        << ImageSequenceElement(
             ListValue(<<"A preview of {attraction1} at {eventName}, vibrant and exciting",
                         "A crowd enjoying {attraction2} at a similar {brandName} event",
                         "A detailed look at {attraction3}, a highlight of {eventName}">>)),
           ShippedElement("lowerThird",
             ListValue(<<"{attraction1}",
                 "{attraction2}",
                 "{attraction3}">>),
             Undefined) >>],
     [type |-> "callToAction", duration |-> 5,
      elements |->
        << ShippedElement("background", Undefined, <<"b", "{", "a", "}">>),
           ShippedElement("text", <<"{", "a", "}">>, Undefined),
           ShippedElement("text", <<"b", "{", "a", "}">>, Undefined),
           ShippedElement("logo", Undefined, Undefined) >>] >>,
   audioOptions   |-> AudioOptions]

\* templates/product-demo.json:1-298
ProductDemoTemplate ==
  [templateName   |-> "EditTrax Product Demo",
   templateType   |-> "productDemo",
   scriptTemplate |-> <<"b", "{", "a", "}">>,
   sections       |->
  << [type |-> "intro", duration |-> 10,
      elements |->
        << ShippedElement("visualEffect", Undefined, Undefined),
           ShippedElement("logo", Undefined, Undefined),
           ShippedElement("text", <<"b", "{", "a", "}">>, Undefined),
           ShippedElement("text", <<"b">>, Undefined) >>],
     [type |-> "painPoint", duration |-> 15,
      elements |->
        << ImageSequenceElement(
             ListValue(<<"A frustrated musician looking at tiny streaming royalty payments on a traditional platform, dark mood",
                         "Musicians signing away rights to their music through complex contracts, shadowy corporate figures in background",
                         "An artists work being used without permission, showing digital theft concept with glitching visuals">>)),
           ShippedElement("text", <<"b">>, Undefined),
           ShippedElement("bulletPoints",
             ListValue(<<"Minimal royalties from streaming",
                 "Loss of ownership rights",
                 "No direct connection to fans",
                 "Limited monetization options">>),
             Undefined) >>],
     [type |-> "solution", duration |-> 20,
      elements |->
        << ShippedElement("image", Undefined, <<"b", "{", "a", "}">>),
           ShippedElement("text", <<"b", "{", "a", "}">>, Undefined),
           ShippedElement("featureHighlight", Undefined, Undefined) >>],
     [type |-> "productDemo", duration |-> 30,
      elements |->
        << ShippedElement("screenRecording", Undefined, Undefined),
           ShippedElement("callout", <<"b", "{", "a", "}">>, Undefined),
           ShippedElement("cursor", Undefined, Undefined),
           ShippedElement("overlay",
             ListValue(<<"Upload your track and mint as an NFT",
                 "Set royalty splits with collaborators",
                 "Create token-gated exclusive content",
                 "Engage directly with your community">>),
             Undefined) >>],
     [type |-> "testimonials", duration |-> 15,
      elements |->
        << ShippedElement("splitScreen", Undefined, Undefined),
           ShippedElement("text", <<"b">>, Undefined),
           ShippedElement("quotes",
             ListValue(<<"Ive earned more in one release on {productName} than six months on traditional platforms.",
                 "For the first time, I feel in control of my music and my relationship with fans.",
                 "The smart contract royalty splits have revolutionized our bands collaboration process.">>),
             Undefined) >>],
     [type |-> "pricing", duration |-> 10,
      elements |->
        << ShippedElement("background", Undefined, Undefined),
           ShippedElement("text", <<"b">>, Undefined),
           ShippedElement("pricingTable", Undefined, Undefined),
           ShippedElement("text", <<"b">>, Undefined) >>],
     [type |-> "callToAction", duration |-> 8,
      elements |->
        << ShippedElement("visualEffect", Undefined, Undefined),
           ShippedElement("text", <<"b">>, Undefined),
           ShippedElement("text", <<"b">>, Undefined),
           ShippedElement("text", <<"{", "a", "}">>, Undefined),
           ShippedElement("logo", Undefined, Undefined) >>] >>,
   audioOptions   |-> AudioOptions]

\* templates/tutorial-video.json:1-183
TutorialVideoTemplate ==
  [templateName   |-> "EditTrax Tutorial",
   templateType   |-> "tutorial",
   scriptTemplate |-> <<"b", "{", "a", "}">>,
   sections       |->
  << [type |-> "intro", duration |-> 8,
      elements |->
        << ShippedElement("visualEffect", Undefined, Undefined),
           ShippedElement("logo", Undefined, Undefined),
           ShippedElement("text", <<"b", "{", "a", "}">>, Undefined),
           ShippedElement("text", <<"b">>, Undefined) >>],
     [type |-> "overview", duration |-> 10,
      elements |->
        << ShippedElement("image", Undefined, <<"b", "{", "a", "}">>),
           ShippedElement("text", <<"b">>, Undefined),
           ShippedElement("bulletPoints",
             ListValue(<<"Setting up {featureName}",
                 "Connecting your wallet",
                 "Securing your tracks on-chain",
                 "Monetizing your content">>),
             Undefined) >>],
     [type |-> "stepByStep", duration |-> 25,
      elements |->
        << ShippedElement("screenRecording", Undefined, Undefined),
           ShippedElement("callout", <<"b">>, Undefined),
           ShippedElement("cursor", Undefined, Undefined) >>],
     [type |-> "demonstration", duration |-> 12,
      elements |->
        << ShippedElement("splitScreen", Undefined, Undefined),
           ShippedElement("text", <<"b">>, Undefined),
           ShippedElement("visualEffect", Undefined, Undefined) >>],
     [type |-> "useCases", duration |-> 10,
      elements |->
        << ImageSequenceElement(
             ListValue(<<"A DJ using {productName} to secure exclusive tracks for performances, interface showing blockchain verification, dark setting with purple accents",
                         "An indie band releasing music directly to fans through {productName}, showing token-gated content access interface",
                         "A producer collaborating remotely with artists, using {productName} to track contributions and royalties through smart contracts">>)),
           ShippedElement("lowerThird",
             ListValue(<<"Live Performance Rights",
                 "Direct-to-Fan Distribution",
                 "Collaboration  Royalties">>),
             Undefined) >>],
     [type |-> "callToAction", duration |-> 5,
      elements |->
        << ShippedElement("background", Undefined, Undefined),
           ShippedElement("text", <<"b">>, Undefined),
           ShippedElement("text", <<"b", "{", "a", "}">>, Undefined),
           ShippedElement("logo", Undefined, Undefined) >>] >>,
   audioOptions   |-> AudioOptions]

ShippedTemplates ==
  { ArtistPromoTemplate, ProductAnnouncementTemplate, BrandVideoTemplate,
    EventTeaserTemplate, ProductDemoTemplate, TutorialVideoTemplate }

\* --------------------------------------------------- inputs of the filler
MaxFillSections == 2

MaxFills == 2

FillElements ==
  { TextElement(<<"{", "a", "}">>), TextElement(<<>>),
    ImageElement(<<"b", "{", "b", "}">>) }

\* element lists of a section: none, one or two elements
FillElementLists ==
  {<<>>} \cup {<<x>> : x \in FillElements}
         \cup {<<x, y>> : x \in FillElements, y \in FillElements}

\* every element list in an intro section, and one main section
FillSections ==
  { [type |-> "intro", duration |-> 3, elements |-> es] : es \in FillElementLists }
    \cup
  { [type |-> "main", duration |-> 22,
     elements |-> <<ImageElement(<<"b", "{", "b", "}">>), TextElement(<<"{", "a", "}">>)>>] }

WellFormedTemplates ==
  { [templateName   |-> "Artist Promotion",
     templateType   |-> "artist-promo",
     scriptTemplate |-> <<"a", "{", "a", "}">>,
     sections       |-> ss,
     audioOptions   |-> AudioOptions] :
      ss \in SeqsUpTo(FillSections, MaxFillSections) }

\* the record t without the property f
Without(t, f) == [g \in DOMAIN t \ {f} |-> t[g]]

FullTemplate ==
  [templateName   |-> "Artist Promotion",
   templateType   |-> "artist-promo",
   scriptTemplate |-> <<"a", "{", "a", "}">>,
   sections       |-> <<[type |-> "intro", duration |-> 3,
                         elements |-> <<TextElement(<<"{", "a", "}">>)>>]>>,
   audioOptions   |-> AudioOptions]

\* documents fillTemplate has to reject
MalformedTemplates ==
  { Without(FullTemplate, "sections"),
    Without(FullTemplate, "scriptTemplate"),
    [FullTemplate EXCEPT !.scriptTemplate = <<>>] }

FillTemplateArgs ==
  {Null} \cup {Some(t) : t \in WellFormedTemplates \cup MalformedTemplates}

FillBrandArgs == {Null, Some(DefaultBrandStyle)}

FillInputArgs ==
  { Null,
    Some(<< >>),
    Some([k \in {<<"a">>} |-> <<"X">>]),
    Some([k \in {<<"a">>, <<"b">>} |-> IF k = <<"a">> THEN <<"X">> ELSE <<"Y">>]) }

\* ------------------------------------------- processTemplate: operators
\* a section of the document without a duration property
NoDuration == -1

DefaultDuration == 3

\* section.duration || 3
SceneDuration(section) ==
  IF section.duration = NoDuration \/ section.duration = 0
  THEN DefaultDuration
  ELSE section.duration

\* file names in outputDir; a path is a tuple, '' is the empty tuple
NoPath == <<>>

TextOverlayPath(sectionIndex) == <<"text_overlay_", sectionIndex, ".png">>

BrandedPath(sectionIndex) == <<"section_", sectionIndex, "_branded.png">>

DefaultScenePath == <<"default_scene.png">>

\* a scene that carries bgColor as processSection left it
SceneConfigNoDefaultColor(section, bgImage, bgColor, animation) ==
  [imagePath    |-> bgImage,
   overlayText  |-> "",
   textPosition |-> "center",
   duration     |-> SceneDuration(section),
   animation    |-> animation,
   bgColor      |-> bgColor]

\* the object pushed at template.ts:505-512
SceneConfig(section, bgImage, bgColor, animation) ==
  [imagePath    |-> bgImage,
   overlayText  |-> "",
   textPosition |-> "center",
   duration     |-> SceneDuration(section),
   animation    |-> animation,
   bgColor      |-> IF bgColor = "" THEN "#000000" ELSE bgColor]

\* a compiler that puts the new scene in front of the list
UnshiftScene(sceneList, scene) == <<scene>> \o sceneList

\* scenes.push(scene)
PushScene(sceneList, scene) == Append(sceneList, scene)

\* the overlay renderer is called for the section indices 0, 1 and 2 only
RendersOverlay(sectionIndex) == sectionIndex \in {0, 1, 2}

\* which branch of the element dispatch of processSection takes the element
ElementBranch(element) ==
  IF element.type = "text" THEN "text"
  ELSE IF element.type = "image" /\ Truthy(element.prompt) THEN "image"
  ELSE IF element.type = "background"
          /\ element.color # UndefinedString /\ element.color # ""
       THEN "background"
  ELSE "none"

\* a compiler without the try/catch around generateImages
AfterGenerateImagesNoCatch(outcome) ==
  IF outcome = "images" THEN "filter"
  ELSE IF outcome = "empty" THEN "elements"
  ELSE "thrown"

\* where processSection continues after `await generateImages(...)`:
\* images -> the brand filter; no image -> the next element; a rejection
\* -> the catch block
AfterGenerateImages(outcome) ==
  IF outcome = "images" THEN "filter"
  ELSE IF outcome = "empty" THEN "elements"
  ELSE "fallback"

\* ------------------------------------------- the calls of processSection
\* String.prototype.toUpperCase on a text whose pieces are single letters
LowerCase ==
  <<"a", "b", "c", "d", "e", "f", "g", "h", "i", "j", "k", "l", "m",
    "n", "o", "p", "q", "r", "s", "t", "u", "v", "w", "x", "y", "z">>

UpperCase ==
  <<"A", "B", "C", "D", "E", "F", "G", "H", "I", "J", "K", "L", "M",
    "N", "O", "P", "Q", "R", "S", "T", "U", "V", "W", "X", "Y", "Z">>

ToUpperChar(c) ==
  IF \E n \in DOMAIN LowerCase : LowerCase[n] = c
  THEN UpperCase[CHOOSE n \in DOMAIN LowerCase : LowerCase[n] = c]
  ELSE c

\* a renderer call that passes the genre as it is
ToUpperCaseIdentity(text) == text

ToUpperCase(text) == [n \in DOMAIN text |-> ToUpperChar(text[n])]

\* `"${userInputs.mixTitle}"`
Quoted(text) == <<"\"">> \o text \o <<"\"">>

\* `${userInputs.mixDuration} Live Set`
LiveSet(mixDuration) == mixDuration \o <<" Live Set">>

\* userInputs.artistGenre.toUpperCase() throws a TypeError when the map
\* has no artistGenre
GenreMissing(sectionIndex, userInputs) ==
  sectionIndex = 0 /\ GetProperty(userInputs, <<"artistGenre">>) = Undefined

\* the text and subtext processSection passes to generateTextOverlay for
\* the section indices 0, 1 and 2
OverlayArguments(sectionIndex, userInputs) ==
  IF sectionIndex = 0
  THEN <<GetProperty(userInputs, <<"artistName">>),
         ToUpperCase(GetProperty(userInputs, <<"artistGenre">>))>>
  ELSE IF sectionIndex = 1
  THEN <<Quoted(GetProperty(userInputs, <<"mixTitle">>)), <<>>>>
  ELSE <<<<"Underground Existence">>,
         LiveSet(GetProperty(userInputs, <<"mixDuration">>))>>

\* `${element.prompt}, styled using ${brandStyle.primaryColor} and
\*  ${brandStyle.accentColor} color scheme, ${brandStyle.tone} feeling`
StyledPrompt(prompt, brandStyle) ==
  prompt \o <<", styled using ", brandStyle.primaryColor, " and ",
              brandStyle.accentColor, " color scheme, ", brandStyle.tone,
              " feeling">>

\* pieces of a script the test of generateSceneDescriptions accepts
KeywordLexemes == {"music"}

DefaultSceneCount == 4

\* generateSceneDescriptions(script).length for a script of one sentence:
\* the sentence itself when it names a keyword, the default scenes otherwise
SceneDescriptionCount(script) ==
  IF \E n \in DOMAIN script : script[n] \in KeywordLexemes
  THEN 1
  ELSE DefaultSceneCount

SceneFallbackPath == <<"scene_fallback.png">>

\* the image lists generateImages may return: section_{n}_branded.png for
\* each scene description, or scene_fallback.png alone when the style guide
\* cannot be read
GeneratedImageLists(script) ==
  { [n \in 1..SceneDescriptionCount(script) |-> BrandedPath(n - 1)],
    <<SceneFallbackPath>> }

\* one call of an external collaborator made by processSection
ExternalCall(kind, sectionIndex, elementIndex, scenes, path, args) ==
  [kind |-> kind, section |-> sectionIndex, element |-> elementIndex,
   appended |-> Len(scenes), path |-> path, args |-> args]

\* the record of which section and which writer wrote a file last, after
\* the section has written the files of paths
Stamp(writtenBy, paths, sectionIndex, writer) ==
  [f \in (DOMAIN writtenBy) \cup paths |->
     IF f \in paths THEN [section |-> sectionIndex, writer |-> writer]
     ELSE writtenBy[f]]

\* --------------------------------------------------------- the encoder
RECURSIVE SumDurations(_)
SumDurations(sceneList) ==
  IF sceneList = <<>> THEN 0
  ELSE (IF Head(sceneList).duration = 0 THEN DefaultDuration
        ELSE Head(sceneList).duration) + SumDurations(Tail(sceneList))

\* scenes.filter(scene => scene.imagePath && fs.existsSync(scene.imagePath))
ValidImages(sceneList, files) ==
  SelectSeq(sceneList, LAMBDA scene : scene.imagePath # NoPath /\ scene.imagePath \in files)

\* the test video made when no scene has an image: d=30
TestVideoDuration == 30

\* the duration createEnhancedVideo asks ffmpeg for
TotalDuration(sceneList, files) ==
  IF Len(ValidImages(sceneList, files)) > 0
  THEN SumDurations(ValidImages(sceneList, files))
  ELSE TestVideoDuration

\* ------------------------------------------------ inputs of the compiler
MaxSections == 2

LogoElement ==
  [type |-> "logo", content |-> Undefined, prompt |-> Undefined,
   color |-> UndefinedString, position |-> "top-right",
   style |-> UndefinedString, animation |-> UndefinedString]

CompileElements ==
  { TextElement(<<"{", "a", "}">>), ImageElement(<<"b", "{", "a", "}">>),
    BackgroundElement("#1A1F2C"), LogoElement }

\* element lists of a section: none, one element, or two elements of
\* which one is an image or a background
CompileElementLists ==
  {<<>>} \cup {<<x>> : x \in CompileElements}
         \cup {<<ImageElement(<<"b", "{", "a", "}">>), y>> :
                  y \in CompileElements \ {LogoElement}}
         \cup {<<x, ImageElement(<<"b", "{", "a", "}">>)>> :
                  x \in {TextElement(<<"{", "a", "}">>), BackgroundElement("#1A1F2C")}}
         \cup {<<LogoElement, BackgroundElement("#1A1F2C")>>}

\* every element list at duration 5; a logo section and a white
\* background section at the other durations
CompileSections ==
  { [type |-> "main", duration |-> 5, elements |-> es] : es \in CompileElementLists }
    \cup
  { [type |-> "intro", duration |-> d,
     elements |-> <<LogoElement>>] : d \in {NoDuration, 0, 22} }
    \cup
  { [type |-> "outro", duration |-> 3,
     elements |-> <<BackgroundElement("#FFFFFF"), TextElement(<<"a">>)>>] }

\* documents loadTemplate accepts (scriptTemplate and sections present)
CompileTemplates ==
  { [templateName   |-> "Artist Promotion",
     templateType   |-> "artist-promo",
     scriptTemplate |-> <<"a", "{", "a", "}">>,
     sections       |-> ss,
     audioOptions   |-> AudioOptions] :
      ss \in SeqsUpTo(CompileSections, MaxSections) }

\* the variable map createBrandedVideo builds for an artist
CompileUserInputs ==
  (<<"a">> :> <<"X">>)
    @@ (<<"artistName">> :> <<"AKILA">>)
    @@ (<<"artistGenre">> :> <<"h", "o", "u", "s", "e">>)
    @@ (<<"mixTitle">> :> <<"Head Ass!!!">>)
    @@ (<<"mixDuration">> :> <<"60:00">>)

\* ------------------------------ inputs of the compiler: longer templates
MaxPositionSections == 4

\* templates/artist-promo.json: a background and two texts, an image and
\* two texts, a background and a text, with the durations 3, 22 and 5
ArtistPromoSections ==
  << [type |-> "intro", duration |-> 3,
      elements |-> <<BackgroundElement("#1A1F2C"), TextElement(<<"{", "a", "}">>),
                     TextElement(<<"{", "b", "}">>)>>],
     [type |-> "content", duration |-> 22,
      elements |-> <<ImageElement(<<"music", "{", "a", "}">>),
                     TextElement(<<"{", "a", "}">>), TextElement(<<"{", "b", "}">>)>>],
     [type |-> "outro", duration |-> 5,
      elements |-> <<BackgroundElement("#1A1F2C"), TextElement(<<"{", "a", "}">>)>>] >>

\* the intro of the product announcement: a logo and a text
LogoIntroSections ==
  << [type |-> "intro", duration |-> 3,
      elements |-> <<LogoElement, TextElement(<<"{", "a", "}">>)>>] >>

\* a section with one text and a section with one image
PositionSections ==
  { [type |-> "main", duration |-> 5,
     elements |-> <<TextElement(<<"{", "a", "}">>)>>],
    [type |-> "main", duration |-> 5,
     elements |-> <<ImageElement(<<"b", "{", "a", "}">>)>>] }

PositionTemplates ==
  { [templateName   |-> "Artist Promotion",
     templateType   |-> "artist-promo",
     scriptTemplate |-> <<"a", "{", "a", "}">>,
     sections       |-> ss,
     audioOptions   |-> AudioOptions] :
      ss \in {ArtistPromoSections, LogoIntroSections}
               \cup SeqsUpTo(PositionSections, MaxPositionSections) }

\* the artist's variable map, the same with an empty value under "a", and
\* a map without the artist's keys
PositionUserInputs ==
  { CompileUserInputs,
    [CompileUserInputs EXCEPT ![<<"a">>] = <<>>],
    [k \in {<<"a">>} |-> <<"X">>] }

\* outputDir is empty, or still holds the overlays of an earlier run
LeftoverFiles == { {}, {TextOverlayPath(3), TextOverlayPath(4)} }

\* ------------------------------------------------------------------ state
VARIABLES
  rText,      \* replaceVariables: the text argument
  rVars,      \* replaceVariables: the variables argument
  rOut,       \* replaceVariables: the returned string
  rPc,        \* "idle" | "call" | "done"
  fTemplate,  \* the caller's template object
  fSnapshot,  \* the template as it was loaded
  fBrand,     \* the caller's brand style
  fInputs,    \* userInputs of the latest fillTemplate call
  fReturned,  \* what the latest call returned
  fThrown,    \* message of the Error the latest call threw, or "none"
  fCalls,     \* number of fillTemplate calls made
  template,        \* processTemplate: the loaded template document
  userInputs,      \* processTemplate: the variable map
  brandStyle,      \* processTemplate: the brand style
  thumbnailExists, \* existsSync(artistThumbnailPath)
  files,           \* the files that exist in outputDir
  filledTemplate,  \* const filledTemplate
  scenes,          \* const scenes: SceneConfig[]
  pc,              \* position of processTemplate / processSection
  sectionIndex,    \* the section index i of the for loop
  elementIndex,    \* position of the next element of section.elements
  bgImage,         \* let bgImage (processSection)
  bgColor,         \* let bgColor (processSection)
  animation,       \* let animation (processSection)
  error,           \* the Error processTemplate rejected with, or "none"
  generatorLog,    \* outcomes of the generateImages calls seen so far
  otherFailure,    \* a collaborator other than generateImages failed
  encoderScenes,   \* the scene list handed to createEnhancedVideo
  externalCalls,   \* the collaborator calls processSection has made
  writtenBy,       \* file -> the section index and the writer that wrote it last
  videoDuration,   \* the duration createEnhancedVideo encoded, or NoDuration
  lLoader,    \* loadTemplate: "brand" (lib/brand.ts) or "templates" (lib/templates.ts)
  lType,      \* loadTemplate: the requested template type
  lDirectory, \* the files of ./templates in readdir order
  lResult,    \* what the call returned, or the Error it threw
  lPc,        \* "idle" | "call" | "done"
  gApi,       \* generateScript: what the OpenAI endpoint will answer
  gPc,        \* position of generateScript / createVideoFromPrompt
  gCaught,    \* the Error the try block of generateScript threw, or "none"
  gScript,    \* the script generateScript resolved with
  wBase,      \* watcher.js: content of base_template.html (number of the edit)
  wUpdated,   \* content of updated_template.html
  wReads,     \* fs.readFile calls whose callback has not run
  wWrites,    \* fs.writeFile calls whose callback has not run
  wChanges,   \* number of 'change' events so far
  wFailed,    \* a callback was called with err
  aAudio,     \* processAudioUrl: the clip length asked for and the download
  aFiles,     \* which of tempInput and tempOutput exist
  aPc,        \* position of processAudioUrl
  aError,     \* the error the try block threw, or "none"
  aStartTime, \* the start time drawn for the clip
  aResult,    \* the record the call resolved with, or the error it rejected with
  bCall,      \* createBrandedVideo: the arguments and the artist database
  bPc,        \* position of createBrandedVideo
  bAudioUrl,  \* audioUrl: the argument, or the URL of the selected mix
  bAudioClip, \* audioClip: undefined, or the clip processAudioUrl returned
  bClipFile,  \* whether the clip file exists
  bCleanups,  \* number of cleanupClip calls so far
  bAudioCalls, \* number of processAudioUrl calls so far
  bError,     \* the error the try block threw, or "none"
  vCall,      \* createArtistVideo: the section types of options.template
  vPc,        \* position of createArtistVideo
  vIndex,     \* the loop variable i
  vRendered,  \* renderedImages
  vComposed,  \* the images composeVideo was called with, if it was called
  vTempDir,   \* whether the temporary frame directory exists
  vClip,      \* whether the generated audio clip exists
  vOutcome,   \* the value the try block returned or the error it threw
  vCleanupFailed, \* rm or unlink of the finally block rejected
  vResult,    \* what the call resolved with or rejected with
  iCall,      \* generateImages: the variant, the script and the style guide file
  iPc,        \* position of generateImages
  iIndex,     \* the loop variable i
  iScenes,    \* scenes: the scene descriptions
  iImagePaths, \* imagePaths
  iFallbacks, \* the paths at which a fallback image was written
  iCaught,    \* the errors the catch blocks have caught
  iResult     \* the list the call resolved with

rvars == <<rText, rVars, rOut, rPc>>

fvars == <<fTemplate, fSnapshot, fBrand, fInputs, fReturned, fThrown, fCalls>>

cvars == <<template, userInputs, brandStyle, thumbnailExists, files,
           filledTemplate, scenes, pc, sectionIndex, elementIndex,
           bgImage, bgColor, animation, error, generatorLog, otherFailure,
           encoderScenes, externalCalls, writtenBy, videoDuration>>

lvars == <<lLoader, lType, lDirectory, lResult, lPc>>

gvars == <<gApi, gPc, gCaught, gScript>>

wvars == <<wBase, wUpdated, wReads, wWrites, wChanges, wFailed>>

avars == <<aAudio, aFiles, aPc, aError, aStartTime, aResult>>

bvars == <<bCall, bPc, bAudioUrl, bAudioClip, bClipFile, bCleanups, bAudioCalls, bError>>

vvars == <<vCall, vPc, vIndex, vRendered, vComposed, vTempDir, vClip, vOutcome, vCleanupFailed, vResult>>

ivars == <<iCall, iPc, iIndex, iScenes, iImagePaths, iFallbacks, iCaught, iResult>>

\* the state of the programs added to the first four
xvars == <<gvars, wvars, avars, bvars, vvars, ivars>>

vars == <<rvars, fvars, cvars, lvars, xvars>>

ResolverIdle ==
  /\ rText = <<>>
  /\ rVars = << >>
  /\ rOut = Undefined
  /\ rPc = "idle"

FillIdle ==
  /\ fTemplate = Null
  /\ fSnapshot = Null
  /\ fBrand = Null
  /\ fInputs = Null
  /\ fReturned = Null
  /\ fThrown = "none"
  /\ fCalls = 0

CompileIdle ==
  /\ template = Null
  /\ userInputs = Null
  /\ brandStyle = Null
  /\ thumbnailExists = FALSE
  /\ files = {}
  /\ filledTemplate = Null
  /\ scenes = <<>>
  /\ pc = "idle"
  /\ sectionIndex = 0
  /\ elementIndex = 1
  /\ bgImage = NoPath
  /\ bgColor = ""
  /\ animation = "none"
  /\ error = "none"
  /\ generatorLog = {}
  /\ otherFailure = FALSE
  /\ encoderScenes = Null
  /\ externalCalls = {}
  /\ writtenBy = << >>
  /\ videoDuration = NoDuration

LoadIdle ==
  /\ lLoader = "none"
  /\ lType = <<>>
  /\ lDirectory = <<>>
  /\ lResult = Null
  /\ lPc = "idle"

ScriptIdle ==
  /\ gApi = Null
  /\ gPc = "idle"
  /\ gCaught = "none"
  /\ gScript = Undefined

\* watcher.js is not running
WatcherIdle ==
  /\ wBase = 0
  /\ wUpdated = 0
  /\ wReads = {}
  /\ wWrites = {}
  /\ wChanges = 0
  /\ wFailed = FALSE

\* AudioProcessor.processAudioUrl is not running
AudioIdle ==
  /\ aAudio = Null
  /\ aFiles = {}
  /\ aPc = "idle"
  /\ aError = "none"
  /\ aStartTime = 0
  /\ aResult = Null

\* createBrandedVideo is not running
BrandedIdle ==
  /\ bCall = Null
  /\ bPc = "idle"
  /\ bAudioUrl = Null
  /\ bAudioClip = Null
  /\ bClipFile = FALSE
  /\ bCleanups = 0
  /\ bAudioCalls = 0
  /\ bError = "none"

\* createArtistVideo is not running
ArtistVideoIdle ==
  /\ vCall = Null
  /\ vPc = "idle"
  /\ vIndex = 0
  /\ vRendered = <<>>
  /\ vComposed = Null
  /\ vTempDir = FALSE
  /\ vClip = FALSE
  /\ vOutcome = "none"
  /\ vCleanupFailed = FALSE
  /\ vResult = "none"

\* generateImages is not running
ImagesIdle ==
  /\ iCall = Null
  /\ iPc = "idle"
  /\ iIndex = 0
  /\ iScenes = <<>>
  /\ iImagePaths = <<>>
  /\ iFallbacks = {}
  /\ iCaught = {}
  /\ iResult = Null

OthersIdle ==
  /\ ScriptIdle
  /\ WatcherIdle
  /\ AudioIdle
  /\ BrandedIdle
  /\ ArtistVideoIdle
  /\ ImagesIdle

\* ---------------------------------------------- the resolver on its own
InitResolve ==
  /\ rText \in ResolverTexts
  /\ rVars \in ResolverMaps
  /\ rOut = Undefined
  /\ rPc = "call"
  /\ FillIdle
  /\ CompileIdle
  /\ LoadIdle
  /\ OthersIdle

Resolve ==
  /\ rPc = "call"
  /\ rOut' = replaceVariables(rText, rVars)
  /\ rPc' = "done"
  /\ UNCHANGED <<rText, rVars, fvars, cvars, lvars, xvars>>

NextResolve == Resolve

SpecResolve == InitResolve /\ [][NextResolve]_vars

\* -------------------------------------------- fillTemplate and its caller
InitFill ==
  /\ ResolverIdle
  /\ CompileIdle
  /\ LoadIdle
  /\ OthersIdle
  /\ fTemplate \in FillTemplateArgs
  /\ fSnapshot = fTemplate
  /\ fBrand \in FillBrandArgs
  /\ fInputs = Null
  /\ fReturned = Null
  /\ fThrown = "none"
  /\ fCalls = 0

\* one call fillTemplate(fTemplate, fBrand, inputs); the caller keeps the
\* loaded template and may fill it again with another variable map
FillTemplate ==
  /\ fCalls < MaxFills
  /\ \E inputs \in FillInputArgs :
       LET r == fillTemplate(fTemplate, fBrand, inputs)
       IN  /\ fTemplate' = r.template
           /\ fReturned' = r.returned
           /\ fThrown' = r.thrown
           /\ fInputs' = inputs
  /\ fCalls' = fCalls + 1
  /\ UNCHANGED <<fSnapshot, fBrand, rvars, cvars, lvars, xvars>>

NextFill == FillTemplate

SpecFill == InitFill /\ [][NextFill]_vars

\* fillTemplate on the documents shipped with the repository
InitShipped ==
  /\ ResolverIdle
  /\ CompileIdle
  /\ LoadIdle
  /\ OthersIdle
  /\ fTemplate \in {Some(t) : t \in ShippedTemplates}
  /\ fSnapshot = fTemplate
  /\ fBrand \in FillBrandArgs
  /\ fInputs = Null
  /\ fReturned = Null
  /\ fThrown = "none"
  /\ fCalls = 0

SpecShipped == InitShipped /\ [][NextFill]_vars

\* ------------------------------------------------- the template loaders
\* a parsed JSON value, as far as the validations of the loaders look at it
JsUndefined == [kind |-> "undefined", value |-> "", length |-> 0]

JsString(s) == [kind |-> "string", value |-> s, length |-> 0]

JsArray(n) == [kind |-> "array", value |-> "", length |-> n]

JsObject == [kind |-> "object", value |-> "", length |-> 0]

\* !v is false for every array and object, and for a non-empty string
JsTruthy(v) == v.kind \in {"array", "object"} \/ (v.kind = "string" /\ v.value # "")

\* Array.isArray(v)
IsArray(v) == v.kind = "array"

TemplateDocument(name, templateName, templateType, scriptTemplate, sections) ==
  [name |-> name, templateName |-> templateName, templateType |-> templateType,
   scriptTemplate |-> scriptTemplate, sections |-> sections]

\* the documents of ./templates: each has templateName, templateType,
\* scriptTemplate and a sections array, and none has name
ArtistPromoDocument ==
  TemplateDocument(JsUndefined, JsString("Artist Promotion"),
                   JsString("artist-promo"), JsString("script"), JsArray(3))

ProductDemoDocument ==
  TemplateDocument(JsUndefined, JsString("EditTrax Product Demo"),
                   JsString("productDemo"), JsString("script"), JsArray(7))

TutorialVideoDocument ==
  TemplateDocument(JsUndefined, JsString("EditTrax Tutorial"),
                   JsString("tutorial"), JsString("script"), JsArray(6))

\* a file name is the sequence of its parts
JsonFile(parts) == parts \o <<".json">>

ShippedDirectory ==
  << [file |-> JsonFile(<<"artist", "-", "promo">>),   doc |-> ArtistPromoDocument],
     [file |-> JsonFile(<<"product", "-", "demo">>),   doc |-> ProductDemoDocument],
     [file |-> JsonFile(<<"tutorial", "-", "video">>), doc |-> TutorialVideoDocument] >>

\* file.includes(templateType)
Includes(file, requested) ==
  \E i \in 0..(Len(file) - Len(requested)) :
     SubSeq(file, i + 1, i + Len(requested)) = requested

\* file.endsWith('.json')
EndsWithJson(file) == Len(file) > 0 /\ file[Len(file)] = ".json"

\* positions of the directory whose file is ./templates/{type}.json
ExactEntries(directory, requested) ==
  {i \in 1..Len(directory) : directory[i].file = JsonFile(requested)}

\* positions the scan of brand.ts:115-128 stops at
ScanEntries(directory, requested) ==
  {i \in 1..Len(directory) :
     Includes(directory[i].file, requested) /\ EndsWithJson(directory[i].file)}

First(positions) == CHOOSE i \in positions : \A j \in positions : i <= j

\* what a loadTemplate call did
Loaded(doc) == [returned |-> Some(doc), thrown |-> "none"]

Threw(message) == [returned |-> Null, thrown |-> message]

\* the validation of brand.ts:100 and 122
BrandInvalid(doc) ==
  \/ ~JsTruthy(doc.templateName)
  \/ ~JsTruthy(doc.templateType)
  \/ ~JsTruthy(doc.scriptTemplate)
  \/ ~JsTruthy(doc.sections)

\* lib/brand.ts:90-135
brandLoadTemplate(directory, requested) ==
  LET exact == ExactEntries(directory, requested)
      scan  == ScanEntries(directory, requested)
      found == IF exact # {} THEN exact ELSE scan
  IN  IF found = {} THEN Threw("Template not found")
      ELSE LET doc == directory[First(found)].doc
           IN  IF BrandInvalid(doc)
               THEN Threw("Invalid template structure")
               ELSE Loaded(doc)

\* the validation of templates.ts:15
TemplatesInvalid(doc) ==
  \/ ~JsTruthy(doc.name)
  \/ ~JsTruthy(doc.sections)
  \/ ~IsArray(doc.sections)

\* lib/templates.ts:7-24; the catch block wraps every error, the one of
\* readFile included
templatesLoadTemplate(directory, requested) ==
  LET exact == ExactEntries(directory, requested)
  IN  IF exact = {}
      THEN Threw("Failed to load template: ENOENT: no such file or directory")
      ELSE LET doc == directory[First(exact)].doc
           IN  IF TemplatesInvalid(doc)
               THEN Threw("Failed to load template: Invalid template structure")
               ELSE Loaded(doc)

\* the documents a templates directory may hold in place of artist-promo.json
DocumentVariants ==
  { TemplateDocument(n, tn, tt, st, ss) :
      n  \in {JsUndefined, JsString("Artist Promotion")},
      tn \in {JsUndefined, JsString("Artist Promotion")},
      tt \in {JsUndefined, JsString("artist-promo")},
      st \in {JsUndefined, JsString(""), JsString("script")},
      ss \in {JsUndefined, JsArray(0), JsArray(3), JsObject, JsString("")} }

LoadDirectories ==
  {ShippedDirectory, <<>>}
    \cup
  { <<[file |-> JsonFile(<<"artist", "-", "promo">>), doc |-> d]>> :
      d \in DocumentVariants }

LoadTypes ==
  { <<"artist", "-", "promo">>, <<"product", "-", "demo">>,
    <<"tutorial", "-", "video">>, <<"promo">>, <<"podcast">> }

InitLoad ==
  /\ ResolverIdle
  /\ FillIdle
  /\ CompileIdle
  /\ OthersIdle
  /\ lLoader \in {"brand", "templates"}
  /\ lType \in LoadTypes
  /\ lDirectory \in LoadDirectories
  /\ lResult = Null
  /\ lPc = "call"

\* loadTemplate(type) of lib/brand.ts
LoadTemplateBrand ==
  /\ lPc = "call"
  /\ lLoader = "brand"
  /\ lResult' = Some(brandLoadTemplate(lDirectory, lType))
  /\ lPc' = "done"
  /\ UNCHANGED <<lLoader, lType, lDirectory, rvars, fvars, cvars, xvars>>

\* await loadTemplate(type) of lib/templates.ts
LoadTemplateTemplates ==
  /\ lPc = "call"
  /\ lLoader = "templates"
  /\ lResult' = Some(templatesLoadTemplate(lDirectory, lType))
  /\ lPc' = "done"
  /\ UNCHANGED <<lLoader, lType, lDirectory, rvars, fvars, cvars, xvars>>

NextLoad ==
  \/ LoadTemplateBrand
  \/ LoadTemplateTemplates

SpecLoad == InitLoad /\ [][NextLoad]_vars

\* ------------------------------------- processTemplate / processSection
\* the state of a compile call that has not started
CompileStart ==
  /\ brandStyle = Some(DefaultBrandStyle)
  /\ thumbnailExists \in BOOLEAN
  /\ filledTemplate = Null
  /\ scenes = <<>>
  /\ pc = "start"
  /\ sectionIndex = 0
  /\ elementIndex = 1
  /\ bgImage = NoPath
  /\ bgColor = ""
  /\ animation = "none"
  /\ error = "none"
  /\ generatorLog = {}
  /\ otherFailure = FALSE
  /\ encoderScenes = Null
  /\ externalCalls = {}
  /\ writtenBy = << >>
  /\ videoDuration = NoDuration

InitCompile ==
  /\ ResolverIdle
  /\ FillIdle
  /\ LoadIdle
  /\ OthersIdle
  /\ template \in {Some(t) : t \in CompileTemplates}
  /\ userInputs = Some(CompileUserInputs)
  /\ files = {}
  /\ CompileStart

\* filledTemplate.sections[i] and the element the inner loop is at
Section == Val(filledTemplate).sections[sectionIndex + 1]

Element == Section.elements[elementIndex]

AtElement(branch) ==
  /\ pc = "elements"
  /\ elementIndex <= Len(Section.elements)
  /\ ElementBranch(Element) = branch

\* processTemplate rejects with the Error message
Throw(message) ==
  /\ pc' = "thrown"
  /\ error' = message

\* the call is added to the calls made so far
Call(kind, path, args) ==
  externalCalls' = externalCalls \cup
    {ExternalCall(kind, sectionIndex, elementIndex, scenes, path, args)}

\* template.ts:272-293: load and fill the template, look for the thumbnail
BeginProcessTemplate ==
  /\ pc = "start"
  /\ LET r == fillTemplate(template, brandStyle, userInputs)
     IN  /\ template' = r.template
         /\ filledTemplate' = r.returned
         /\ IF r.thrown # "none"
            THEN Throw(r.thrown) /\ UNCHANGED otherFailure
            ELSE IF ~thumbnailExists
            THEN Throw("Artist thumbnail not found") /\ otherFailure' = TRUE
            ELSE pc' = "resize" /\ UNCHANGED <<error, otherFailure>>
  /\ UNCHANGED <<userInputs, brandStyle, thumbnailExists, files, scenes,
                 sectionIndex, elementIndex, bgImage, bgColor, animation,
                 generatorLog, encoderScenes, externalCalls, writtenBy,
                 videoDuration, rvars, fvars, lvars, xvars>>

\* template.ts:297-302: await sharp(artistThumbnailPath).resize().toBuffer()
ResizeThumbnail ==
  /\ pc = "resize"
  /\ \E ok \in BOOLEAN :
       IF ok
       THEN pc' = "defaultScene" /\ UNCHANGED <<error, otherFailure>>
       ELSE Throw("thumbnail resize failed") /\ otherFailure' = TRUE
  /\ UNCHANGED <<template, userInputs, brandStyle, thumbnailExists, files,
                 filledTemplate, scenes, sectionIndex, elementIndex, bgImage,
                 bgColor, animation, generatorLog, encoderScenes,
                 externalCalls, writtenBy, videoDuration, rvars, fvars, lvars, xvars>>

\* template.ts:305-323: the default scene with the artist thumbnail
CreateDefaultScene ==
  /\ pc = "defaultScene"
  /\ \E ok \in BOOLEAN :
       IF ok
       THEN /\ files' = files \cup {DefaultScenePath}
            /\ pc' = "sections"
            /\ UNCHANGED <<error, otherFailure>>
       ELSE /\ Throw("default scene composite failed")
            /\ otherFailure' = TRUE
            /\ UNCHANGED files
  /\ UNCHANGED <<template, userInputs, brandStyle, thumbnailExists,
                 filledTemplate, scenes, sectionIndex, elementIndex, bgImage,
                 bgColor, animation, generatorLog, encoderScenes,
                 externalCalls, writtenBy, videoDuration, rvars, fvars, lvars, xvars>>

\* template.ts:326-328 and 354-356: the loop calls processSection, which
\* initialises its locals
EnterSection ==
  /\ pc = "sections"
  /\ sectionIndex < Len(Val(filledTemplate).sections)
  /\ bgImage' = NoPath
  /\ bgColor' = ""
  /\ animation' = "none"
  /\ elementIndex' = 1
  /\ pc' = "elements"
  /\ UNCHANGED <<template, userInputs, brandStyle, thumbnailExists, files,
                 filledTemplate, scenes, sectionIndex, error, generatorLog,
                 otherFailure, encoderScenes, externalCalls, writtenBy,
                 videoDuration, rvars, fvars, lvars, xvars>>

\* template.ts:360-402: a text element; generateTextOverlay writes the file
\* or throws, and is only called for the sections 0, 1 and 2; reading the
\* genre of a map without artistGenre throws before the call
RenderTextOverlay ==
  /\ AtElement("text")
  /\ \E outcome \in (IF ~RendersOverlay(sectionIndex) THEN {"not called"}
                     ELSE IF GenreMissing(sectionIndex, Val(userInputs))
                     THEN {"type error"}
                     ELSE {"written", "throws"}) :
       /\ IF outcome \in {"written", "throws"}
          THEN Call("generateTextOverlay", TextOverlayPath(sectionIndex),
                    OverlayArguments(sectionIndex, Val(userInputs)))
          ELSE UNCHANGED externalCalls
       /\ IF outcome = "type error"
          THEN /\ Throw("TypeError: cannot read toUpperCase of undefined")
               /\ UNCHANGED <<files, writtenBy, elementIndex, otherFailure>>
          ELSE IF outcome = "throws"
          THEN /\ Throw("text overlay renderer failed")
               /\ otherFailure' = TRUE
               /\ UNCHANGED <<files, writtenBy, elementIndex>>
          ELSE LET written == IF outcome = "written"
                              THEN {TextOverlayPath(sectionIndex)}
                              ELSE {}
               IN  /\ files' = files \cup written
                   /\ writtenBy' = Stamp(writtenBy, written, sectionIndex,
                                         "generateTextOverlay")
                   /\ IF TextOverlayPath(sectionIndex) \in files \cup written
                      THEN /\ elementIndex' = elementIndex + 1
                           /\ UNCHANGED <<pc, error, otherFailure>>
                      ELSE /\ Throw("Failed to generate text overlay")
                           /\ otherFailure' = TRUE
                           /\ UNCHANGED elementIndex
  /\ UNCHANGED <<template, userInputs, brandStyle, thumbnailExists,
                 filledTemplate, scenes, sectionIndex, bgImage, bgColor,
                 animation, generatorLog, encoderScenes, videoDuration,
                 rvars, fvars, lvars, xvars>>

\* template.ts:403-413: an image element with a prompt; await
\* generateImages(styledPrompt), which resolves with the images it wrote,
\* resolves with no image, or rejects
GenerateImage ==
  /\ AtElement("image")
  /\ LET styledPrompt == StyledPrompt(Element.prompt, Val(brandStyle))
     IN  /\ Call("generateImages", NoPath, <<styledPrompt>>)
         /\ \E outcome \in {"images", "empty", "throws"} :
              /\ generatorLog' = generatorLog \cup {outcome}
              /\ pc' = AfterGenerateImages(outcome)
              /\ \E images \in (IF outcome = "images"
                                THEN GeneratedImageLists(styledPrompt)
                                ELSE {<<>>}) :
                   /\ files' = files \cup {images[n] : n \in DOMAIN images}
                   /\ writtenBy' = Stamp(writtenBy,
                                         {images[n] : n \in DOMAIN images},
                                         sectionIndex, "generateImages")
                   /\ bgImage' = IF outcome = "images" THEN images[1] ELSE bgImage
              /\ elementIndex' = IF AfterGenerateImages(outcome) = "elements"
                                 THEN elementIndex + 1 ELSE elementIndex
              /\ error' = IF AfterGenerateImages(outcome) = "thrown"
                          THEN "generateImages rejected" ELSE error
  /\ UNCHANGED <<template, userInputs, brandStyle, thumbnailExists,
                 filledTemplate, scenes, sectionIndex, bgColor, animation,
                 otherFailure, encoderScenes, videoDuration, rvars, fvars,
                 lvars, xvars>>

\* template.ts:416-443: the brand filter on images[0]; a failure is caught
\* by the catch block of line 445
ApplyBrandFilter ==
  /\ pc = "filter"
  /\ Call("sharp", BrandedPath(sectionIndex), <<>>)
  /\ \E ok \in BOOLEAN :
       IF ok
       THEN /\ files' = files \cup {BrandedPath(sectionIndex)}
            /\ writtenBy' = Stamp(writtenBy, {BrandedPath(sectionIndex)}, sectionIndex,
                                  "brand filter")
            /\ bgImage' = BrandedPath(sectionIndex)
            /\ elementIndex' = elementIndex + 1
            /\ pc' = "elements"
            /\ UNCHANGED otherFailure
       ELSE /\ pc' = "fallback"
            /\ otherFailure' = TRUE
            /\ UNCHANGED <<files, writtenBy, bgImage, elementIndex>>
  /\ UNCHANGED <<template, userInputs, brandStyle, thumbnailExists,
                 filledTemplate, scenes, sectionIndex, bgColor, animation,
                 error, generatorLog, encoderScenes, videoDuration, rvars,
                 fvars, lvars, xvars>>

\* template.ts:445-472: the catch block composites the thumbnail on a flat
\* canvas; nothing catches a failure of this composite
FallbackComposite ==
  /\ pc = "fallback"
  /\ Call("sharp", BrandedPath(sectionIndex), <<>>)
  /\ \E ok \in BOOLEAN :
       IF ok
       THEN /\ files' = files \cup {BrandedPath(sectionIndex)}
            /\ writtenBy' = Stamp(writtenBy, {BrandedPath(sectionIndex)}, sectionIndex,
                                  "fallback composite")
            /\ bgImage' = BrandedPath(sectionIndex)
            /\ elementIndex' = elementIndex + 1
            /\ pc' = "elements"
            /\ UNCHANGED <<error, otherFailure>>
       ELSE /\ Throw("fallback composite failed")
            /\ otherFailure' = TRUE
            /\ UNCHANGED <<files, writtenBy, bgImage, elementIndex>>
  /\ UNCHANGED <<template, userInputs, brandStyle, thumbnailExists,
                 filledTemplate, scenes, sectionIndex, bgColor, animation,
                 generatorLog, encoderScenes, videoDuration, rvars, fvars,
                 lvars, xvars>>

\* a background branch that keeps the colour of the first background
BackgroundCompositeFirstWins ==
  /\ AtElement("background")
  /\ bgColor' = IF bgColor = "" THEN Element.color ELSE bgColor
  /\ Call("sharp", BrandedPath(sectionIndex), <<>>)
  /\ \E ok \in BOOLEAN :
       IF ok
       THEN /\ files' = files \cup {BrandedPath(sectionIndex)}
            /\ writtenBy' = Stamp(writtenBy, {BrandedPath(sectionIndex)}, sectionIndex,
                                  "background composite")
            /\ bgImage' = BrandedPath(sectionIndex)
            /\ elementIndex' = elementIndex + 1
            /\ UNCHANGED <<pc, error, otherFailure>>
       ELSE /\ Throw("background composite failed")
            /\ otherFailure' = TRUE
            /\ UNCHANGED <<files, writtenBy, bgImage, elementIndex>>
  /\ UNCHANGED <<template, userInputs, brandStyle, thumbnailExists,
                 filledTemplate, scenes, sectionIndex, animation,
                 generatorLog, encoderScenes, videoDuration, rvars, fvars,
                 lvars, xvars>>

\* template.ts:473-501: a background element with a colour
BackgroundComposite ==
  /\ AtElement("background")
  /\ bgColor' = Element.color
  /\ Call("sharp", BrandedPath(sectionIndex), <<>>)
  /\ \E ok \in BOOLEAN :
       IF ok
       THEN /\ files' = files \cup {BrandedPath(sectionIndex)}
            /\ writtenBy' = Stamp(writtenBy, {BrandedPath(sectionIndex)}, sectionIndex,
                                  "background composite")
            /\ bgImage' = BrandedPath(sectionIndex)
            /\ elementIndex' = elementIndex + 1
            /\ UNCHANGED <<pc, error, otherFailure>>
       ELSE /\ Throw("background composite failed")
            /\ otherFailure' = TRUE
            /\ UNCHANGED <<files, writtenBy, bgImage, elementIndex>>
  /\ UNCHANGED <<template, userInputs, brandStyle, thumbnailExists,
                 filledTemplate, scenes, sectionIndex, animation,
                 generatorLog, encoderScenes, videoDuration, rvars, fvars,
                 lvars, xvars>>

\* an element no branch of the dispatch takes
SkipElement ==
  /\ AtElement("none")
  /\ elementIndex' = elementIndex + 1
  /\ UNCHANGED <<template, userInputs, brandStyle, thumbnailExists, files,
                 filledTemplate, scenes, pc, sectionIndex, bgImage, bgColor,
                 animation, error, generatorLog, otherFailure, encoderScenes,
                 externalCalls, writtenBy, videoDuration, rvars, fvars, lvars, xvars>>

\* a loop that does not await processSection: it goes on to the next
\* section before the scene of this one is pushed
AppendSceneNotAwaited ==
  /\ pc = "elements"
  /\ elementIndex > Len(Section.elements)
  /\ sectionIndex' = sectionIndex + 1
  /\ pc' = "sections"
  /\ UNCHANGED <<template, userInputs, brandStyle, thumbnailExists, files,
                 filledTemplate, scenes, elementIndex, bgImage, bgColor,
                 animation, error, generatorLog, otherFailure, encoderScenes,
                 externalCalls, writtenBy, videoDuration, rvars, fvars, lvars, xvars>>

\* template.ts:504-512: after the last element the scene is pushed and
\* processSection returns to the loop
AppendScene ==
  /\ pc = "elements"
  /\ elementIndex > Len(Section.elements)
  /\ scenes' = PushScene(scenes, SceneConfig(Section, bgImage, bgColor, animation))
  /\ sectionIndex' = sectionIndex + 1
  /\ pc' = "sections"
  /\ UNCHANGED <<template, userInputs, brandStyle, thumbnailExists, files,
                 filledTemplate, elementIndex, bgImage, bgColor, animation,
                 error, generatorLog, otherFailure, encoderScenes,
                 externalCalls, writtenBy, videoDuration, rvars, fvars, lvars, xvars>>

\* template.ts:331-338: after the loop, generateAudio (which catches its
\* own failures) and the return of {script, scenes, audioPath}
ReturnScenes ==
  /\ pc = "sections"
  /\ sectionIndex >= Len(Val(filledTemplate).sections)
  /\ pc' = "returned"
  /\ UNCHANGED <<template, userInputs, brandStyle, thumbnailExists, files,
                 filledTemplate, scenes, sectionIndex, elementIndex, bgImage,
                 bgColor, animation, error, generatorLog, otherFailure,
                 encoderScenes, externalCalls, writtenBy, videoDuration,
                 rvars, fvars, lvars, xvars>>

\* createBrandedVideo hands the returned scenes to createEnhancedVideo
CallEncoder ==
  /\ pc = "returned"
  /\ encoderScenes' = Some(scenes)
  /\ pc' = "encoding"
  /\ UNCHANGED <<template, userInputs, brandStyle, thumbnailExists, files,
                 filledTemplate, scenes, sectionIndex, elementIndex, bgImage,
                 bgColor, animation, error, generatorLog, otherFailure,
                 externalCalls, writtenBy, videoDuration, rvars, fvars, lvars, xvars>>

\* enhanced-video.ts:158-285: the scenes with an existing image give the
\* total duration of the ffmpeg command, which ends or fails
CreateEnhancedVideo ==
  /\ pc = "encoding"
  /\ \E ok \in BOOLEAN :
       IF ok
       THEN /\ videoDuration' = TotalDuration(Val(encoderScenes), files)
            /\ pc' = "encoded"
       ELSE /\ pc' = "encoderFailed"
            /\ UNCHANGED videoDuration
  /\ UNCHANGED <<template, userInputs, brandStyle, thumbnailExists, files,
                 filledTemplate, scenes, sectionIndex, elementIndex, bgImage,
                 bgColor, animation, error, generatorLog, otherFailure,
                 encoderScenes, externalCalls, writtenBy, rvars, fvars, lvars, xvars>>

Next ==
  \/ BeginProcessTemplate
  \/ ResizeThumbnail
  \/ CreateDefaultScene
  \/ EnterSection
  \/ RenderTextOverlay
  \/ GenerateImage
  \/ ApplyBrandFilter
  \/ FallbackComposite
  \/ BackgroundComposite
  \/ SkipElement
  \/ AppendScene
  \/ ReturnScenes
  \/ CallEncoder
  \/ CreateEnhancedVideo

Init == InitCompile

Spec == Init /\ [][Next]_vars

\* the same compiler on templates of up to MaxPositionSections sections,
\* with the variable maps of other callers and an outputDir that may hold
\* files of an earlier run
InitPositions ==
  /\ ResolverIdle
  /\ FillIdle
  /\ LoadIdle
  /\ OthersIdle
  /\ template \in {Some(t) : t \in PositionTemplates}
  /\ userInputs \in {Some(u) : u \in PositionUserInputs}
  /\ files \in LeftoverFiles
  /\ CompileStart

SpecPositions == InitPositions /\ [][Next]_vars

\* ------------------- inputs of the compiler: sections of several layers
MaxLayerSections == 2

\* element lists with two backgrounds of different colours, and with an
\* image and a background in either order
LayerElementLists ==
  { <<BackgroundElement("#1A1F2C"), BackgroundElement("#FFFFFF")>>,
    <<BackgroundElement("#FFFFFF"), BackgroundElement("#1A1F2C")>>,
    <<ImageElement(<<"b", "{", "a", "}">>), BackgroundElement("#1A1F2C")>>,
    <<BackgroundElement("#1A1F2C"), ImageElement(<<"b", "{", "a", "}">>)>>,
    <<BackgroundElement("#1A1F2C"), ImageElement(<<"b", "{", "a", "}">>),
      BackgroundElement("#FFFFFF")>>,
    <<LogoElement, TextElement(<<"{", "a", "}">>)>> }

LayerSections ==
  { [type |-> "main", duration |-> 5, elements |-> es] : es \in LayerElementLists }

LayerTemplates ==
  { [templateName   |-> "Artist Promotion",
     templateType   |-> "artist-promo",
     scriptTemplate |-> <<"a", "{", "a", "}">>,
     sections       |-> ss,
     audioOptions   |-> AudioOptions] :
      ss \in SeqsUpTo(LayerSections, MaxLayerSections) }

InitLayers ==
  /\ ResolverIdle
  /\ FillIdle
  /\ LoadIdle
  /\ OthersIdle
  /\ template \in {Some(t) : t \in LayerTemplates}
  /\ userInputs = Some(CompileUserInputs)
  /\ files = {}
  /\ CompileStart

SpecLayers == InitLayers /\ [][Next]_vars

\* --------------------------------------------------------- generateScript
\* the fallback script of gpt.ts:46 and 54
DefaultScript ==
  <<"This is a sample script for a video about AI in music production. AI is revolutionizing how music is created, produced, and distributed.">>

JsNull == [kind |-> "null", value |-> "", length |-> 0]

\* res.ok: the status is in the range 200-299
ResOk(status) == status \in 200..299

\* data.choices?.[0]?.message?.content
ContentOf(data) ==
  IF data.choices = Null THEN Undefined
  ELSE IF Val(data.choices) = <<>> THEN Undefined
  ELSE IF Val(data.choices)[1].message = Null THEN Undefined
  ELSE IF Val(Val(data.choices)[1].message).content = Null THEN Undefined
  ELSE Val(Val(Val(data.choices)[1].message).content)

\* a choice of the response: without message, or with a message without
\* content, or with a content string
Choice(message) == [message |-> message]

Message(content) == [content |-> content]

ScriptChoices ==
  { Choice(Null), Choice(Some(Message(Null))) }
    \cup
  { Choice(Some(Message(Some(c)))) :
      c \in {<<>>, <<"AI writes music.">>, <<"A studio at night.">>} }

\* the bodies the endpoint may answer with
ScriptResponses ==
  { [error |-> e, choices |-> cs] :
      e  \in {JsUndefined, JsNull, JsObject},
      cs \in {Null, Some(<<>>)} \cup {Some(<<c>>) : c \in ScriptChoices} }

\* what the endpoint does to one request: the connection, the status, and
\* whether the body can be read as text and as JSON
ScriptApis ==
  { [network |-> n, status |-> st, text |-> t, json |-> j, data |-> d] :
      n  \in {"responds", "fails"},
      st \in {200, 401, 500},
      t  \in {"readable", "fails"},
      j  \in {"parses", "fails"},
      d  \in ScriptResponses }

InitScript ==
  /\ ResolverIdle
  /\ FillIdle
  /\ CompileIdle
  /\ LoadIdle
  /\ WatcherIdle
  /\ AudioIdle
  /\ BrandedIdle
  /\ ArtistVideoIdle
  /\ ImagesIdle
  /\ gApi \in {Some(a) : a \in ScriptApis}
  /\ gPc = "start"
  /\ gCaught = "none"
  /\ gScript = Undefined

ScriptFrame == <<rvars, fvars, cvars, lvars, wvars, avars, bvars, vvars, ivars>>

\* gpt.ts:15-34: await fetch(...); a response that is not ok is read as text
SendRequest ==
  /\ gPc = "start"
  /\ IF Val(gApi).network = "fails"
     THEN gCaught' = "fetch failed" /\ gPc' = "catch"
     ELSE IF ~ResOk(Val(gApi).status)
     THEN gPc' = "errorText" /\ UNCHANGED gCaught
     ELSE gPc' = "json" /\ UNCHANGED gCaught
  /\ UNCHANGED <<gApi, gScript, ScriptFrame>>

\* gpt.ts:31-33: await res.text(), then throw inside the try block
ReadErrorText ==
  /\ gPc = "errorText"
  /\ gCaught' = IF Val(gApi).text = "fails"
                THEN "res.text failed"
                ELSE "OpenAI API returned status"
  /\ gPc' = "catch"
  /\ UNCHANGED <<gApi, gScript, ScriptFrame>>

\* gpt.ts:36: await res.json()
ParseJson ==
  /\ gPc = "json"
  /\ IF Val(gApi).json = "fails"
     THEN gCaught' = "invalid json" /\ gPc' = "catch"
     ELSE gPc' = "data" /\ UNCHANGED gCaught
  /\ UNCHANGED <<gApi, gScript, ScriptFrame>>

\* gpt.ts:38-50: the error field, then the content of the first choice
InspectData ==
  /\ gPc = "data"
  /\ LET data == Val(gApi).data
     IN  IF JsTruthy(data.error)
         THEN gCaught' = "OpenAI API Error" /\ gPc' = "catch" /\ UNCHANGED gScript
         ELSE /\ gScript' = IF Truthy(ContentOf(data))
                            THEN ContentOf(data)
                            ELSE DefaultScript
              /\ gPc' = "resolved"
              /\ UNCHANGED gCaught
  /\ UNCHANGED <<gApi, ScriptFrame>>

\* a catch block that passes the error on
CatchErrorRethrow ==
  /\ gPc = "catch"
  /\ gPc' = "rejected"
  /\ UNCHANGED <<gApi, gCaught, gScript, ScriptFrame>>

\* gpt.ts:51-55: the catch block returns the fallback script
CatchError ==
  /\ gPc = "catch"
  /\ gScript' = DefaultScript
  /\ gPc' = "resolved"
  /\ UNCHANGED <<gApi, gCaught, ScriptFrame>>

\* index.ts:26-30: createVideoFromPrompt goes on to generateImages(script)
ContinuePipeline ==
  /\ gPc = "resolved"
  /\ gPc' = "images"
  /\ UNCHANGED <<gApi, gCaught, gScript, ScriptFrame>>

NextScript ==
  \/ SendRequest
  \/ ReadErrorText
  \/ ParseJson
  \/ InspectData
  \/ CatchError
  \/ ContinuePipeline

SpecScript == InitScript /\ [][NextScript]_vars

\* ------------------------------------------------------------- watcher.js
MaxChanges == 3

InitWatch ==
  /\ ResolverIdle
  /\ FillIdle
  /\ CompileIdle
  /\ LoadIdle
  /\ ScriptIdle
  /\ AudioIdle
  /\ BrandedIdle
  /\ ArtistVideoIdle
  /\ ImagesIdle
  /\ wBase = 0
  /\ wUpdated = 0
  /\ wReads = {}
  /\ wWrites = {}
  /\ wChanges = 0
  /\ wFailed = FALSE

WatchFrame == <<rvars, fvars, cvars, lvars, gvars, avars, bvars, vvars, ivars>>

\* watcher.js:14-18: base_template.html is saved, chokidar emits 'change'
\* and the listener starts fs.readFile
ChangeEvent ==
  /\ wChanges < MaxChanges
  /\ wChanges' = wChanges + 1
  /\ wBase' = wChanges + 1
  /\ wReads' = wReads \cup {[change |-> wChanges + 1, data |-> Null]}
  /\ UNCHANGED <<wUpdated, wWrites, wFailed, WatchFrame>>

\* watcher.js:18: the thread pool reads the file as it is at that moment
ReadFile ==
  \E r \in wReads :
    /\ r.data = Null
    /\ wReads' = (wReads \ {r}) \cup {[r EXCEPT !.data = Some(wBase)]}
    /\ UNCHANGED <<wBase, wUpdated, wWrites, wChanges, wFailed, WatchFrame>>

\* watcher.js:18-25: the read callback without err starts fs.writeFile
ReadCallback ==
  \E r \in wReads :
    /\ r.data # Null
    /\ wReads' = wReads \ {r}
    /\ wWrites' = wWrites \cup {[change |-> r.change, data |-> Val(r.data)]}
    /\ UNCHANGED <<wBase, wUpdated, wChanges, wFailed, WatchFrame>>

\* watcher.js:19-22: the read callback with err only logs
ReadError ==
  \E r \in wReads :
    /\ r.data = Null
    /\ wReads' = wReads \ {r}
    /\ wFailed' = TRUE
    /\ UNCHANGED <<wBase, wUpdated, wWrites, wChanges, WatchFrame>>

\* watcher.js:25-31: a write lands and its callback runs without err; the
\* thread pool finishes concurrent writes in any order
WriteCallback ==
  \E w \in wWrites :
    /\ wUpdated' = w.data
    /\ wWrites' = wWrites \ {w}
    /\ UNCHANGED <<wBase, wReads, wChanges, wFailed, WatchFrame>>

\* watcher.js:26-29: the write callback with err only logs
WriteError ==
  \E w \in wWrites :
    /\ wWrites' = wWrites \ {w}
    /\ wFailed' = TRUE
    /\ UNCHANGED <<wBase, wUpdated, wReads, wChanges, WatchFrame>>

NextWatch ==
  \/ ChangeEvent
  \/ ReadFile
  \/ ReadCallback
  \/ ReadError
  \/ WriteCallback
  \/ WriteError

SpecWatch == InitWatch /\ [][NextWatch]_vars

\* ------------------------------------------ AudioProcessor.processAudioUrl
MaxAudioDuration == 4

DefaultClipDuration == 30

\* Math.max(0, fullDuration - clipDuration)
MaxStart(fullDuration, clipDuration) ==
  IF fullDuration - clipDuration > 0 THEN fullDuration - clipDuration ELSE 0

\* Math.floor(Math.random() * maxStart)
StartTimes(maxStart) == IF maxStart = 0 THEN {0} ELSE 0..(maxStart - 1)

\* a call: the clip length, the length ffprobe reports for the download,
\* and whether the file system refuses to delete the downloaded file
AudioCalls ==
  { [clipDuration |-> c, fullDuration |-> d, inputLocked |-> l] :
      c \in {2, DefaultClipDuration},
      d \in 0..MaxAudioDuration,
      l \in BOOLEAN }

InitAudio ==
  /\ ResolverIdle
  /\ FillIdle
  /\ CompileIdle
  /\ LoadIdle
  /\ ScriptIdle
  /\ WatcherIdle
  /\ BrandedIdle
  /\ ArtistVideoIdle
  /\ ImagesIdle
  /\ aAudio \in {Some(a) : a \in AudioCalls}
  /\ aFiles = {}
  /\ aPc = "download"
  /\ aError = "none"
  /\ aStartTime = 0
  /\ aResult = Null

AudioFrame == <<rvars, fvars, cvars, lvars, gvars, wvars, bvars, vvars, ivars>>

\* fs/promises unlink(file): rejects when the file does not exist or
\* cannot be deleted
UnlinkRejects(file, existing, locked) ==
  file \notin existing \/ (file = "tempInput" /\ locked)

\* audio-processor.ts:87 and 27-41: the write stream creates tempInput and
\* the response is piped into it; the request or the stream may fail,
\* with or without the file on disk
DownloadFile ==
  /\ aPc = "download"
  /\ \/ /\ aFiles' = aFiles \cup {"tempInput"}
        /\ aPc' = "probe"
        /\ UNCHANGED aError
     \/ /\ \E created \in {{}, {"tempInput"}} : aFiles' = aFiles \cup created
        /\ aError' = "download failed"
        /\ aPc' = "catch"
  /\ UNCHANGED <<aAudio, aStartTime, aResult, AudioFrame>>

\* audio-processor.ts:90-94: ffprobe, then the random start time
GetAudioDuration ==
  /\ aPc = "probe"
  /\ \/ /\ aStartTime' \in StartTimes(MaxStart(Val(aAudio).fullDuration,
                                               Val(aAudio).clipDuration))
        /\ aPc' = "cut"
        /\ UNCHANGED aError
     \/ /\ aError' = "ffprobe failed"
        /\ aPc' = "catch"
        /\ UNCHANGED aStartTime
  /\ UNCHANGED <<aAudio, aFiles, aResult, AudioFrame>>

\* audio-processor.ts:97-104: ffmpeg writes tempOutput; a failing run may
\* leave a partial file
CutClip ==
  /\ aPc = "cut"
  /\ \/ /\ aFiles' = aFiles \cup {"tempOutput"}
        /\ aPc' = "unlink"
        /\ UNCHANGED aError
     \/ /\ \E written \in {{}, {"tempOutput"}} : aFiles' = aFiles \cup written
        /\ aError' = "ffmpeg failed"
        /\ aPc' = "catch"
  /\ UNCHANGED <<aAudio, aStartTime, aResult, AudioFrame>>

\* audio-processor.ts:107-113: the input is deleted and the clip returned
UnlinkInput ==
  /\ aPc = "unlink"
  /\ IF UnlinkRejects("tempInput", aFiles, Val(aAudio).inputLocked)
     THEN /\ aError' = "unlink failed"
          /\ aPc' = "catch"
          /\ UNCHANGED <<aFiles, aResult>>
     ELSE /\ aFiles' = aFiles \ {"tempInput"}
          /\ aResult' = Some([clipPath  |-> "tempOutput",
                              duration  |-> Val(aAudio).clipDuration,
                              startTime |-> aStartTime,
                              rejected  |-> "none"])
          /\ aPc' = "resolved"
          /\ UNCHANGED aError
  /\ UNCHANGED <<aAudio, aStartTime, AudioFrame>>

\* audio-processor.ts:116-117: the first unlink of the inner try block; a
\* rejection leaves the block
CleanupInput ==
  /\ aPc = "catch"
  /\ IF UnlinkRejects("tempInput", aFiles, Val(aAudio).inputLocked)
     THEN aPc' = "rethrow" /\ UNCHANGED aFiles
     ELSE aPc' = "cleanupOutput" /\ aFiles' = aFiles \ {"tempInput"}
  /\ UNCHANGED <<aAudio, aError, aStartTime, aResult, AudioFrame>>

\* audio-processor.ts:118-119: the second unlink; its rejection is dropped
CleanupOutput ==
  /\ aPc = "cleanupOutput"
  /\ aFiles' = IF UnlinkRejects("tempOutput", aFiles, Val(aAudio).inputLocked)
               THEN aFiles
               ELSE aFiles \ {"tempOutput"}
  /\ aPc' = "rethrow"
  /\ UNCHANGED <<aAudio, aError, aStartTime, aResult, AudioFrame>>

\* audio-processor.ts:120: throw error
RethrowError ==
  /\ aPc = "rethrow"
  /\ aResult' = Some([clipPath |-> "", duration |-> 0, startTime |-> 0,
                      rejected |-> aError])
  /\ aPc' = "rejected"
  /\ UNCHANGED <<aAudio, aFiles, aError, aStartTime, AudioFrame>>

NextAudio ==
  \/ DownloadFile
  \/ GetAudioDuration
  \/ CutClip
  \/ UnlinkInput
  \/ CleanupInput
  \/ CleanupOutput
  \/ RethrowError

SpecAudio == InitAudio /\ [][NextAudio]_vars

\* ------------------------------------------------------ createBrandedVideo
MaxMixes == 2

\* an artist of assets/artists.json: the URL of each mix, "" when the
\* entry has none
Artists ==
  { [mixes |-> ms] : ms \in SeqsUpTo({"https://arweave.net/mix", ""}, MaxMixes) }

\* loadArtistData(artistName): the artist, undefined when no entry has
\* the name, null when the file cannot be read or parsed
ArtistLookups == {Some(a) : a \in Artists} \cup {Null}

\* a call: the template type, whether userInputs.artistName is set, what
\* loadArtistData finds, and the audioUrl argument
BrandedCalls ==
  { [templateType |-> t, artistName |-> n, artistData |-> d, audioUrl |-> u] :
      t \in {"artist-promo", "product"},
      n \in BOOLEAN,
      d \in ArtistLookups,
      u \in {Null, Some("https://example.com/audio.mp3")} }

InitBranded ==
  /\ ResolverIdle
  /\ FillIdle
  /\ CompileIdle
  /\ LoadIdle
  /\ ScriptIdle
  /\ WatcherIdle
  /\ AudioIdle
  /\ ArtistVideoIdle
  /\ ImagesIdle
  /\ bCall \in {Some(c) : c \in BrandedCalls}
  /\ bPc = "artist"
  /\ bAudioUrl = Val(bCall).audioUrl
  /\ bAudioClip = Null
  /\ bClipFile = FALSE
  /\ bCleanups = 0
  /\ bAudioCalls = 0
  /\ bError = "none"

BrandedFrame == <<rvars, fvars, cvars, lvars, gvars, wvars, avars, vvars, ivars>>

\* the try block threw: control moves to the catch block of line 259
BrandedThrow(message) ==
  /\ bError' = message
  /\ bPc' = "catch"

\* AudioProcessor.cleanupClip(clipPath): unlink inside try/catch, so the
\* call never rejects
CleanupClip ==
  /\ bCleanups' = bCleanups + 1
  /\ bClipFile' \in {FALSE, bClipFile}

\* part_011:185-206: for an artist promo with an artist name the artist is
\* looked up and a random mix selected
SelectArtistMix ==
  /\ bPc = "artist"
  /\ IF Val(bCall).templateType = "artist-promo" /\ Val(bCall).artistName
     THEN IF Val(bCall).artistData = Null
          THEN /\ BrandedThrow("Artist not found in database")
               /\ UNCHANGED bAudioUrl
          ELSE IF Val(Val(bCall).artistData).mixes = <<>>
          THEN /\ BrandedThrow("TypeError: cannot read mixArweaveURL of undefined")
               /\ UNCHANGED bAudioUrl
          ELSE \E mixIndex \in DOMAIN Val(Val(bCall).artistData).mixes :
                 /\ bAudioUrl' =
                      (IF Val(Val(bCall).artistData).mixes[mixIndex] = ""
                       THEN Null
                       ELSE Some(Val(Val(bCall).artistData).mixes[mixIndex]))
                 /\ bPc' = "output"
                 /\ UNCHANGED bError
     ELSE /\ bPc' = "output"
          /\ UNCHANGED <<bAudioUrl, bError>>
  /\ UNCHANGED <<bCall, bAudioClip, bClipFile, bCleanups, bAudioCalls, BrandedFrame>>

\* part_011:209-216: the output directory and the brand style guide
PrepareOutput ==
  /\ bPc = "output"
  /\ \/ bPc' = "audio" /\ UNCHANGED bError
     \/ BrandedThrow("mkdirSync failed")
     \/ BrandedThrow("loadBrandStyle failed")
  /\ UNCHANGED <<bCall, bAudioUrl, bAudioClip, bClipFile, bCleanups, bAudioCalls,
                 BrandedFrame>>

\* part_011:219-223: if (audioUrl) audioClip = await processAudioUrl(audioUrl)
ProcessAudioClip ==
  /\ bPc = "audio"
  /\ IF bAudioUrl = Null
     THEN /\ bPc' = "template"
          /\ UNCHANGED <<bAudioClip, bClipFile, bAudioCalls, bError>>
     ELSE /\ bAudioCalls' = bAudioCalls + 1
          /\ \/ /\ bAudioClip' = Some("tempOutput")
                /\ bClipFile' = TRUE
                /\ bPc' = "template"
                /\ UNCHANGED bError
             \/ /\ BrandedThrow("processAudioUrl rejected")
                /\ UNCHANGED <<bAudioClip, bClipFile>>
  /\ UNCHANGED <<bCall, bAudioUrl, bCleanups, BrandedFrame>>

\* part_011:227-236: getPromoAssets and await processTemplate
ProcessTemplateCall ==
  /\ bPc = "template"
  /\ \/ bPc' = "encode" /\ UNCHANGED bError
     \/ BrandedThrow("getPromoAssets failed")
     \/ BrandedThrow("processTemplate rejected")
  /\ UNCHANGED <<bCall, bAudioUrl, bAudioClip, bClipFile, bCleanups, bAudioCalls,
                 BrandedFrame>>

\* part_011:242-248: await createEnhancedVideo
EncodeVideo ==
  /\ bPc = "encode"
  /\ \/ bPc' = "cleanup" /\ UNCHANGED bError
     \/ BrandedThrow("createEnhancedVideo rejected")
  /\ UNCHANGED <<bCall, bAudioUrl, bAudioClip, bClipFile, bCleanups, bAudioCalls,
                 BrandedFrame>>

\* part_011:251-258: the clip is cleaned up and the video path returned
CleanupAndReturn ==
  /\ bPc = "cleanup"
  /\ IF bAudioClip # Null
     THEN CleanupClip
     ELSE UNCHANGED <<bCleanups, bClipFile>>
  /\ bPc' = "resolved"
  /\ UNCHANGED <<bCall, bAudioUrl, bAudioClip, bAudioCalls, bError, BrandedFrame>>

\* a catch block that only rethrows
RethrowWithoutCleanup ==
  /\ bPc = "catch"
  /\ bPc' = "rejected"
  /\ UNCHANGED <<bCall, bAudioUrl, bAudioClip, bClipFile, bCleanups, bAudioCalls,
                 bError, BrandedFrame>>

\* part_011:259-266: the catch block cleans up the clip and rethrows
CleanupAndRethrow ==
  /\ bPc = "catch"
  /\ IF bAudioClip # Null
     THEN CleanupClip
     ELSE UNCHANGED <<bCleanups, bClipFile>>
  /\ bPc' = "rejected"
  /\ UNCHANGED <<bCall, bAudioUrl, bAudioClip, bAudioCalls, bError, BrandedFrame>>

NextBranded ==
  \/ SelectArtistMix
  \/ PrepareOutput
  \/ ProcessAudioClip
  \/ ProcessTemplateCall
  \/ EncodeVideo
  \/ CleanupAndReturn
  \/ CleanupAndRethrow

SpecBranded == InitBranded /\ [][NextBranded]_vars

\* ------------------------------------------------------- createArtistVideo
MaxVideoSections == 3

\* the type of each section of options.template, "" when a section has
\* none
ArtistVideoCalls ==
  { [sections |-> ss] : ss \in SeqsUpTo({"intro", "content", ""}, MaxVideoSections) }

\* path.join(tempDir, `section_${i}.png`)
SectionImagePath(i) == <<"section_", i, ".png">>

\* `${section.type || 'intro'}-slide.html`
SlideTemplate(type) == IF type = "" THEN "intro-slide.html" ELSE type \o "-slide.html"

InitArtistVideo ==
  /\ ResolverIdle
  /\ FillIdle
  /\ CompileIdle
  /\ LoadIdle
  /\ ScriptIdle
  /\ WatcherIdle
  /\ AudioIdle
  /\ BrandedIdle
  /\ ImagesIdle
  /\ vCall \in {Some(c) : c \in ArtistVideoCalls}
  /\ vPc = "audio"
  /\ vIndex = 0
  /\ vRendered = <<>>
  /\ vComposed = Null
  /\ vTempDir = FALSE
  /\ vClip = FALSE
  /\ vOutcome = "none"
  /\ vCleanupFailed = FALSE
  /\ vResult = "none"

ArtistVideoFrame == <<rvars, fvars, cvars, lvars, gvars, wvars, avars, bvars, ivars>>

\* video-renderer.ts:23: await generateAudioClip(...), outside the try
GenerateAudioClip ==
  /\ vPc = "audio"
  /\ \/ /\ vClip' = TRUE
        /\ vPc' = "mkdir"
        /\ UNCHANGED vResult
     \/ /\ vResult' = "generateAudioClip rejected"
        /\ vPc' = "rejected"
        /\ UNCHANGED vClip
  /\ UNCHANGED <<vCall, vIndex, vRendered, vComposed, vTempDir, vOutcome,
                 vCleanupFailed, ArtistVideoFrame>>

\* video-renderer.ts:26-27: await fs.promises.mkdir(tempDir), outside the try
MakeTempDir ==
  /\ vPc = "mkdir"
  /\ \/ /\ vTempDir' = TRUE
        /\ vPc' = "render"
        /\ UNCHANGED vResult
     \/ /\ vResult' = "mkdir rejected"
        /\ vPc' = "rejected"
        /\ UNCHANGED vTempDir
  /\ UNCHANGED <<vCall, vIndex, vRendered, vComposed, vClip, vOutcome,
                 vCleanupFailed, ArtistVideoFrame>>

\* video-renderer.ts:34-56: one pass of the loop; a rejected
\* renderTextToImage leaves the try block
RenderSection ==
  /\ vPc = "render"
  /\ vIndex < Len(Val(vCall).sections)
  /\ \/ /\ vRendered' = Append(vRendered,
                               [path     |-> SectionImagePath(vIndex),
                                template |-> SlideTemplate(Val(vCall).sections[vIndex + 1])])
        /\ vIndex' = vIndex + 1
        /\ UNCHANGED <<vPc, vOutcome>>
     \/ /\ vOutcome' = "renderTextToImage rejected"
        /\ vPc' = "finally"
        /\ UNCHANGED <<vRendered, vIndex>>
  /\ UNCHANGED <<vCall, vComposed, vTempDir, vClip, vCleanupFailed, vResult,
                 ArtistVideoFrame>>

\* video-renderer.ts:60-70 and 95-108: composeVideo throws on an empty
\* image list, otherwise runs ffmpeg
ComposeVideo ==
  /\ vPc = "render"
  /\ vIndex >= Len(Val(vCall).sections)
  /\ vComposed' = Some(vRendered)
  /\ IF vRendered = <<>>
     THEN vOutcome' = "No images provided for video composition"
     ELSE vOutcome' \in {"finalVideo", "ffmpeg failed"}
  /\ vPc' = "finally"
  /\ UNCHANGED <<vCall, vIndex, vRendered, vTempDir, vClip, vCleanupFailed,
                 vResult, ArtistVideoFrame>>

\* a finally block whose cleanup is not wrapped in try/catch
RemoveTempDirUncaught ==
  /\ vPc = "finally"
  /\ \/ /\ vTempDir' = FALSE
        /\ vPc' = "unlink"
        /\ UNCHANGED <<vCleanupFailed, vOutcome>>
     \/ /\ vCleanupFailed' = TRUE
        /\ vOutcome' = "rm rejected"
        /\ vPc' = "settle"
        /\ UNCHANGED vTempDir
  /\ UNCHANGED <<vCall, vIndex, vRendered, vComposed, vClip, vResult,
                 ArtistVideoFrame>>

\* video-renderer.ts:71-74: fs.promises.rm(tempDir); a rejection is caught
\* at line 76 and skips the unlink
RemoveTempDir ==
  /\ vPc = "finally"
  /\ \/ /\ vTempDir' = FALSE
        /\ vPc' = "unlink"
        /\ UNCHANGED <<vCleanupFailed, vOutcome>>
     \/ /\ vCleanupFailed' = TRUE
        /\ vPc' = "settle"
        /\ UNCHANGED <<vTempDir, vOutcome>>
  /\ UNCHANGED <<vCall, vIndex, vRendered, vComposed, vClip, vResult,
                 ArtistVideoFrame>>

\* video-renderer.ts:75-78: fs.promises.unlink(audioClipPath); a rejection
\* is caught
UnlinkAudioClip ==
  /\ vPc = "unlink"
  /\ \/ vClip' = FALSE /\ UNCHANGED vCleanupFailed
     \/ vCleanupFailed' = TRUE /\ UNCHANGED vClip
  /\ vPc' = "settle"
  /\ UNCHANGED <<vCall, vIndex, vRendered, vComposed, vTempDir, vOutcome,
                 vResult, ArtistVideoFrame>>

\* video-renderer.ts:79-80: after the finally block the call resolves with
\* the returned value or rejects with the error of the try block
SettleArtistVideo ==
  /\ vPc = "settle"
  /\ vResult' = vOutcome
  /\ vPc' = IF vOutcome = "finalVideo" THEN "resolved" ELSE "rejected"
  /\ UNCHANGED <<vCall, vIndex, vRendered, vComposed, vTempDir, vClip,
                 vOutcome, vCleanupFailed, ArtistVideoFrame>>

NextArtistVideo ==
  \/ GenerateAudioClip
  \/ MakeTempDir
  \/ RenderSection
  \/ ComposeVideo
  \/ RemoveTempDir
  \/ UnlinkAudioClip
  \/ SettleArtistVideo

SpecArtistVideo == InitArtistVideo /\ [][NextArtistVideo]_vars

\* --------------------------------------------------------- generateImages
MaxSentences == 5

\* Math.min(scenes.length, 4) and slice(0, 4)
MaxImages == 4

\* the scenes array of the variant of video-renderer.ts:280-285
FixedSceneCount == 3

\* a sentence of the script, as far as the filter of generateSceneDescriptions
\* looks at it: its length and whether it names a keyword
Sentences ==
  { [length |-> n, keyword |-> k] : n \in {20, 21}, k \in BOOLEAN } \
    { [length |-> 20, keyword |-> FALSE] }

\* sentence.length > 20 && /music|sound|.../i.test(sentence)
SceneSentence(sentence) == sentence.length > 20 /\ sentence.keyword

\* generateSceneDescriptions(script): the first four sentences that pass
\* the filter, or the four default scenes when none passes
generateSceneDescriptions(script) ==
  LET kept == SelectSeq(script, SceneSentence)
  IN  IF Len(kept) > 0
      THEN [n \in 1..(IF Len(kept) < MaxImages THEN Len(kept) ELSE MaxImages) |->
              [source |-> "script", sentence |-> kept[n]]]
      ELSE [n \in 1..DefaultSceneCount |->
              [source |-> "default", sentence |-> [length |-> 21, keyword |-> TRUE]]]

\* path.join(scenesDir, `section_${i}_branded.png`): the file name is that
\* of BrandedPath
SceneImagePath(i) == BrandedPath(i)

\* what can happen to one scene inside the inner try block
SceneOutcomes ==
  {"image", "prompt construction throws", "fetch rejects", "API error status",
   "response without data", "download rejects", "download error status"}

ImageCalls ==
  { [variant |-> v, script |-> sc, styleGuide |-> g] :
      v  \in {"script", "fixed"},
      sc \in SeqsUpTo(Sentences, MaxSentences),
      g  \in {"readable", "unreadable", "not JSON"} }

InitImages ==
  /\ ResolverIdle
  /\ FillIdle
  /\ CompileIdle
  /\ LoadIdle
  /\ ScriptIdle
  /\ WatcherIdle
  /\ AudioIdle
  /\ BrandedIdle
  /\ ArtistVideoIdle
  /\ iCall \in {Some(c) : c \in ImageCalls}
  /\ iPc = "start"
  /\ iIndex = 0
  /\ iScenes = <<>>
  /\ iImagePaths = <<>>
  /\ iFallbacks = {}
  /\ iCaught = {}
  /\ iResult = Null

ImagesFrame == <<rvars, fvars, cvars, lvars, gvars, wvars, avars, bvars, vvars>>

\* video-renderer.ts:476-496 and 262-285: the directories are ensured, the
\* style guide is read and parsed and the scene list built; an unreadable
\* or invalid style guide throws inside the outer try block
LoadStyleGuide ==
  /\ iPc = "start"
  /\ IF Val(iCall).styleGuide = "readable"
     THEN /\ iScenes' = (IF Val(iCall).variant = "script"
                         THEN generateSceneDescriptions(Val(iCall).script)
                         ELSE [n \in 1..FixedSceneCount |->
                                 [source |-> "fixed",
                                  sentence |-> [length |-> 21, keyword |-> TRUE]]])
          /\ iPc' = "loop"
          /\ UNCHANGED iCaught
     ELSE /\ iCaught' = iCaught \cup {"style guide: " \o Val(iCall).styleGuide}
          /\ iPc' = "outerCatch"
          /\ UNCHANGED iScenes
  /\ UNCHANGED <<iCall, iIndex, iImagePaths, iFallbacks, iResult, ImagesFrame>>

\* the loop bound: Math.min(scenes.length, 4), scenes.length in the variant
ImagesToGenerate ==
  IF Val(iCall).variant = "script" /\ Len(iScenes) > MaxImages
  THEN MaxImages
  ELSE Len(iScenes)

\* video-renderer.ts:498-541 and 287-331: the inner try block of one scene;
\* a success writes the downloaded image and pushes its path
RequestImage ==
  /\ iPc = "loop"
  /\ iIndex < ImagesToGenerate
  /\ \E outcome \in SceneOutcomes :
       IF outcome = "image"
       THEN /\ iImagePaths' = Append(iImagePaths, SceneImagePath(iIndex))
            /\ iIndex' = iIndex + 1
            /\ UNCHANGED <<iPc, iCaught>>
       ELSE /\ iCaught' = iCaught \cup {outcome}
            /\ iPc' = "sceneCatch"
            /\ UNCHANGED <<iImagePaths, iIndex>>
  /\ UNCHANGED <<iCall, iScenes, iFallbacks, iResult, ImagesFrame>>

\* an inner catch block that only logs the error
SkipFailedScene ==
  /\ iPc = "sceneCatch"
  /\ iIndex' = iIndex + 1
  /\ iPc' = "loop"
  /\ UNCHANGED <<iCall, iScenes, iImagePaths, iFallbacks, iCaught, iResult,
                 ImagesFrame>>

\* video-renderer.ts:543-548 and 332-357: the inner catch block writes a
\* fallback image at the path of the scene and pushes it
WriteSceneFallback ==
  /\ iPc = "sceneCatch"
  /\ iFallbacks' = iFallbacks \cup {SceneImagePath(iIndex)}
  /\ iImagePaths' = Append(iImagePaths, SceneImagePath(iIndex))
  /\ iIndex' = iIndex + 1
  /\ iPc' = "loop"
  /\ UNCHANGED <<iCall, iScenes, iCaught, iResult, ImagesFrame>>

\* video-renderer.ts:550-555 and 359-368: the outer catch block writes
\* scene_fallback.png and pushes it
WriteProcessFallback ==
  /\ iPc = "outerCatch"
  /\ iFallbacks' = iFallbacks \cup {SceneFallbackPath}
  /\ iImagePaths' = Append(iImagePaths, SceneFallbackPath)
  /\ iPc' = "return"
  /\ UNCHANGED <<iCall, iIndex, iScenes, iCaught, iResult, ImagesFrame>>

\* video-renderer.ts:498 and 287: the loop condition fails
EndImageLoop ==
  /\ iPc = "loop"
  /\ iIndex >= ImagesToGenerate
  /\ iPc' = "return"
  /\ UNCHANGED <<iCall, iIndex, iScenes, iImagePaths, iFallbacks, iCaught,
                 iResult, ImagesFrame>>

\* video-renderer.ts:557-565 and 370: an empty list gets scene_fallback.png
\* (not in the variant), then the list is returned
ReturnImagePaths ==
  /\ iPc = "return"
  /\ IF iImagePaths = <<>> /\ Val(iCall).variant = "script"
     THEN /\ iFallbacks' = iFallbacks \cup {SceneFallbackPath}
          /\ iImagePaths' = <<SceneFallbackPath>>
          /\ iResult' = Some(<<SceneFallbackPath>>)
     ELSE /\ iResult' = Some(iImagePaths)
          /\ UNCHANGED <<iFallbacks, iImagePaths>>
  /\ iPc' = "resolved"
  /\ UNCHANGED <<iCall, iIndex, iScenes, iCaught, ImagesFrame>>

NextImages ==
  \/ LoadStyleGuide
  \/ RequestImage
  \/ WriteSceneFallback
  \/ WriteProcessFallback
  \/ EndImageLoop
  \/ ReturnImagePaths

SpecImages == InitImages /\ [][NextImages]_vars

\* ------------------------------------------------ claims on the resolver
\* a placeholder {key} starts at position i of text
IsPlaceholderAt(text, i) ==
  /\ text[i] = "{"
  /\ WordRunEnd(text, i + 1) >= i + 1
  /\ WordRunEnd(text, i + 1) + 1 <= Len(text)
  /\ text[WordRunEnd(text, i + 1) + 1] = "}"

\* the keys of the placeholders of text
PlaceholderKeys(text) ==
  { SubSeq(text, i + 1, WordRunEnd(text, i + 1)) :
      i \in {p \in 1..Len(text) : IsPlaceholderAt(text, p)} }

\* the resolver of the specification: variables[key] when the key is present in
\* the map, the placeholder itself otherwise
RECURSIVE SubstituteFrom(_, _, _)
SubstituteFrom(text, i, variables) ==
  IF i > Len(text) THEN <<>>
  ELSE IF IsPlaceholderAt(text, i)
       THEN LET j == WordRunEnd(text, i + 1)
                key == SubSeq(text, i + 1, j)
            IN  (IF key \in DOMAIN variables THEN variables[key] ELSE SubSeq(text, i, j + 1))
                  \o SubstituteFrom(text, j + 2, variables)
       ELSE <<text[i]>> \o SubstituteFrom(text, i + 1, variables)

\* C6: when every placeholder of the text names a key of the map, each
\* occurrence is replaced by the map's value for its key, whatever that
\* value is (the empty string included), each occurrence independently.
C6_PresentKeysSubstituted ==
  (rPc = "done" /\ PlaceholderKeys(rText) \subseteq DOMAIN rVars)
    => rOut = SubstituteFrom(rText, 1, rVars)

\* C7: when no placeholder of the text names a key of the map (unknown
\* keys, the empty map, a text without placeholders, the empty text) the
\* output equals the input.
C7_UnknownPlaceholdersVerbatim ==
  (rPc = "done" /\ PlaceholderKeys(rText) \cap DOMAIN rVars = {})
    => rOut = rText

\* -------------------------------------------------- claims on fillTemplate
\* C8: fillTemplate does not mutate its input: after every call, returning
\* or throwing, the caller's template equals its snapshot taken at load
\* time, so a later fill with another variable map returns what it would
\* return on a fresh load.
C8_InputNotMutated ==
  /\ fTemplate = fSnapshot
  /\ (fCalls > 0 /\ fThrown = "none")
       => fReturned = Some(FilledTemplate(Val(fSnapshot), Val(fInputs)))

\* a second fill of the same loaded template returned a template that
\* differs from the loaded one
C8_Witness ==
  /\ fCalls = 2
  /\ fThrown = "none"
  /\ fReturned # Null
  /\ fReturned # fTemplate

\* what the claim C9 expects of an element: content and prompt resolved
\* when present, every other field as in the input
ExpectedElement(element, inputs) ==
  [element EXCEPT
     !.content = IF element.content # Undefined
                 THEN replaceVariables(element.content, inputs)
                 ELSE Undefined,
     !.prompt  = IF element.prompt # Undefined
                 THEN replaceVariables(element.prompt, inputs)
                 ELSE Undefined]

\* C9: the returned template has the same sections in the same order (type,
\* duration, number and order of elements); scriptTemplate and every
\* element's content and prompt are the resolver applied to the input's
\* fields when those are present; every other element field is the input's.
C9_FilledFieldsResolved ==
  (fCalls > 0 /\ fThrown = "none" /\ fReturned # Null) =>
    LET out == Val(fReturned)
        in  == Val(fSnapshot)
        ui  == Val(fInputs)
    IN  /\ out.scriptTemplate = replaceVariables(in.scriptTemplate, ui)
        /\ Len(out.sections) = Len(in.sections)
        /\ \A k \in 1..Len(in.sections) :
             /\ out.sections[k].type = in.sections[k].type
             /\ out.sections[k].duration = in.sections[k].duration
             /\ Len(out.sections[k].elements) = Len(in.sections[k].elements)
             /\ \A m \in 1..Len(in.sections[k].elements) :
                  out.sections[k].elements[m]
                    = ExpectedElement(in.sections[k].elements[m], ui)

\* the template argument is absent or lacks sections or scriptTemplate
TemplateAbsentOrLacking(t) ==
  \/ t = Null
  \/ "sections" \notin DOMAIN Val(t)
  \/ "scriptTemplate" \notin DOMAIN Val(t)

\* C10: a call with an absent template, a template lacking sections or
\* scriptTemplate, an absent brand style or an absent variable map throws,
\* and returns no part of a result.
C10_InvalidInputThrows ==
  (/\ fCalls > 0
   /\ \/ TemplateAbsentOrLacking(fTemplate)
      \/ fBrand = Null
      \/ fInputs = Null)
    => (fThrown # "none" /\ fReturned = Null)

\* a call on a well-formed template without a brand style threw
C10_Witness ==
  /\ fCalls > 0
  /\ ~TemplateAbsentOrLacking(fTemplate)
  /\ fBrand = Null
  /\ fInputs # Null
  /\ fThrown = "Brand style is required"

\* ----------------------------------------------- claims on processTemplate
\* processTemplate has resolved with its scenes
Returned == pc \in {"returned", "encoding", "encoded", "encoderFailed"}

\* the colour of the last background element with a colour, "" if none
RECURSIVE LastBackgroundColor(_)
LastBackgroundColor(elements) ==
  IF elements = <<>> THEN ""
  ELSE IF ElementBranch(elements[Len(elements)]) = "background"
       THEN elements[Len(elements)].color
       ELSE LastBackgroundColor(SubSeq(elements, 1, Len(elements) - 1))

\* the scene at position k was produced from the section at position k:
\* its duration and background colour are that section's, and its image,
\* if any, is the file written for that section index
DerivesFrom(scene, section, k) ==
  /\ scene.duration = SceneDuration(section)
  /\ scene.bgColor = (IF LastBackgroundColor(section.elements) = ""
                      THEN "#000000"
                      ELSE LastBackgroundColor(section.elements))
  /\ scene.imagePath \in {NoPath, BrandedPath(k - 1)}
  /\ scene.imagePath # NoPath
       => \E m \in 1..Len(section.elements) :
            ElementBranch(section.elements[m]) \in {"image", "background"}

\* C1: when processTemplate returns, the scene list has one entry per
\* section of the filled template and scenes[k] was produced from
\* sections[k]: nothing skipped, duplicated or reordered.
C1_OneScenePerSectionInOrder ==
  Returned =>
    /\ Len(scenes) = Len(Val(filledTemplate).sections)
    /\ \A k \in 1..Len(scenes) :
         DerivesFrom(scenes[k], Val(filledTemplate).sections[k], k)

\* a returned compilation of two sections that gave two different scenes
C1_Witness ==
  /\ pc = "returned"
  /\ Len(scenes) = 2
  /\ scenes[1] # scenes[2]

\* C2: every scene carries its section's duration unchanged, the default 3
\* only standing in for a missing duration; so the durations add up to the
\* sections' durations.
C2_DurationCarriedThrough ==
  Returned =>
    \A k \in 1..Len(scenes) :
      LET d == Val(template).sections[k].duration
      IN  scenes[k].duration = (IF d = NoDuration THEN DefaultDuration ELSE d)

ImageResolutionErrors ==
  {"generateImages rejected", "brand filter failed", "fallback composite failed"}

\* C4: no failure inside the resolution of an image element (generation,
\* brand filter, fallback composite) reaches the caller of processTemplate.
C4_ImageFailuresNeverPropagate ==
  ~(pc = "thrown" /\ error \in ImageResolutionErrors)

\* C5: processTemplate never returns an empty scene list, and
\* createEnhancedVideo is never called with one.
C5_NoEmptySceneList ==
  /\ Returned => scenes # <<>>
  /\ encoderScenes # Null => Val(encoderScenes) # <<>>


\* ------------------------------------------------- claims on loadTemplate
\* the entry of the directory a loader reads for the requested type: the
\* file {type}.json, or for lib/brand.ts the first file whose name includes
\* the type
MatchingEntries ==
  IF lLoader = "brand" /\ ExactEntries(lDirectory, lType) = {}
  THEN ScanEntries(lDirectory, lType)
  ELSE ExactEntries(lDirectory, lType)

NotFoundErrors ==
  {"Template not found",
   "Failed to load template: ENOENT: no such file or directory"}

MalformedErrors ==
  {"Invalid template structure",
   "Failed to load template: Invalid template structure"}

\* the document lacks its name, lacks scriptTemplate, or its sections is
\* not an array
Malformed(doc) ==
  \/ (~JsTruthy(doc.name) /\ ~JsTruthy(doc.templateName))
  \/ ~JsTruthy(doc.scriptTemplate)
  \/ ~IsArray(doc.sections)

\* C11: loadTemplate of either loader fails with a not-found error when no
\* definition matches the requested type, fails with a malformed-template
\* error when the matching document lacks its name (name or templateName),
\* lacks scriptTemplate or has sections that is not an array, and returns
\* the parsed document otherwise
C11_LoadTemplateOutcomes ==
  lPc = "done" =>
    LET r == Val(lResult)
    IN  IF MatchingEntries = {}
        THEN r.thrown \in NotFoundErrors
        ELSE LET doc == lDirectory[First(MatchingEntries)].doc
             IN  IF Malformed(doc)
                 THEN r.thrown \in MalformedErrors
                 ELSE r = Loaded(doc)


\* --------------------------------------------- claims on processSection
HasElement(section, type) ==
  \E m \in 1..Len(section.elements) : section.elements[m].type = type

\* the calls of the text overlay renderer made for the section index k
OverlayCalls(k) ==
  {c \in externalCalls : c.kind = "generateTextOverlay" /\ c.section = k}

\* C12: for every section, at any index, that contains a text element, the
\* text overlay renderer is invoked during the compile call with the output
\* path text_overlay_{sectionIndex}.png, and processSection fails with the
\* overlay error exactly when the renderer, having been invoked, did not
\* produce the file.
C12_OverlayRenderedForEveryTextSection ==
  /\ \A k \in 1..Len(scenes) :
       HasElement(Val(filledTemplate).sections[k], "text")
         => \E c \in OverlayCalls(k - 1) : c.path = TextOverlayPath(k - 1)
  /\ (pc = "thrown" /\ error = "Failed to generate text overlay")
       => OverlayCalls(sectionIndex) # {}


HasBranch(section, branch) ==
  \E m \in 1..Len(section.elements) : ElementBranch(section.elements[m]) = branch

\* C13: when the image generator returns zero results for an image element,
\* processSection treats it as a generation failure: the fallback is
\* applied for that section and its scene gets the fallback file as
\* imagePath, not an empty imagePath.
C13_EmptyResultFallsBack ==
  (Returned /\ generatorLog = {"empty"})
    => \A k \in 1..Len(scenes) :
         HasBranch(Val(filledTemplate).sections[k], "image")
           => scenes[k].imagePath = BrandedPath(k - 1)

\* C14: when the thumbnail file does not exist, processTemplate still
\* completes: it does not reject, and it returns one scene per section.
C14_MissingThumbnailStillCompletes ==
  ~thumbnailExists
    => /\ pc # "thrown"
       /\ Returned => Len(scenes) = Len(Val(filledTemplate).sections)

\* the files keyed by the section index k
SectionFiles(k) == {BrandedPath(k), TextOverlayPath(k)}

\* C15: once scenes[i] has been appended, no later step of the same
\* processTemplate call (the processing of a section j # i, its
\* generateImages call included) writes to the file named by
\* scenes[i].imagePath or to section_{i}_branded.png / text_overlay_{i}.png:
\* no such file was last written while a later section was processed.
C15_SectionFilesStableAfterAppend ==
  \A k \in 1..Len(scenes) :
    \A f \in (SectionFiles(k - 1) \cup {scenes[k].imagePath}) \cap DOMAIN writtenBy :
      writtenBy[f].section <= k - 1


\* the external calls made for the section index k
SectionCalls(k) == {c \in externalCalls : c.section = k}

\* C16: sections are compiled strictly sequentially: every external call of
\* section i+1 is made when scenes[0..i] have been appended and not before,
\* and within a section the call of an element has completed before the
\* next element is examined (no call of the current or a later element
\* exists while the loop is between elements, and while a call chain of an
\* image element is awaited the loop still stands at that element).
C16_SectionsCompiledSequentially ==
  /\ \A c \in externalCalls : c.appended = c.section /\ c.section <= sectionIndex
  /\ pc \in {"elements", "filter", "fallback"} => Len(scenes) = sectionIndex
  /\ pc = "sections" => SectionCalls(sectionIndex) = {}
  /\ pc = "elements" => \A c \in SectionCalls(sectionIndex) : c.element < elementIndex
  /\ pc \in {"filter", "fallback"}
       => /\ ElementBranch(Element) = "image"
          /\ \A c \in SectionCalls(sectionIndex) : c.element <= elementIndex

\* a returned compilation of two sections with external calls in both, the
\* first of them with calls for two of its elements
C16_Witness ==
  /\ Returned
  /\ Len(scenes) = 2
  /\ SectionCalls(1) # {}
  /\ \E c \in SectionCalls(0) : c.element = 1
  /\ \E c \in SectionCalls(0) : c.element = 2


\* ------------------------------------------ claims on createEnhancedVideo
RECURSIVE SumOfSceneDurations(_)
SumOfSceneDurations(sceneList) ==
  IF sceneList = <<>> THEN 0
  ELSE Head(sceneList).duration + SumOfSceneDurations(Tail(sceneList))

\* C17: the encoded video's total duration equals the sum of the durations
\* of all scenes passed to createEnhancedVideo (here: of a scene list that
\* is not empty); a scene whose imagePath is empty or names no existing
\* file still contributes its duration.
C17_EncodedDurationIsSumOfScenes ==
  (pc = "encoded" /\ Val(encoderScenes) # <<>>)
    => videoDuration = SumOfSceneDurations(Val(encoderScenes))

\* ----------------------------------- claims on the calls of processSection
\* every section of the template holds a text element
TextInEverySection(sections) ==
  \A k \in 1..Len(sections) : HasElement(sections[k], "text")

\* the (text, subtext) pairs the renderer was called with for section k
OverlayTexts(k) == {c.args : c \in OverlayCalls(k)}

\* C18: for a 3-section template with a text element in each section, the
\* renderer is called for section 0 with (artistName, artistGenre in upper
\* case), for section 1 with the mix title in double quotes and an empty
\* subtext, for section 2 with ("Underground Existence", mixDuration
\* followed by " Live Set"); with the durations [3,22,5] the result is 3
\* scenes with the durations [3,22,5].
C18_OverlayContentByPosition ==
  (/\ Returned
   /\ Len(Val(template).sections) = 3
   /\ TextInEverySection(Val(template).sections))
    => /\ OverlayTexts(0) = {<< <<"AKILA">>, <<"H", "O", "U", "S", "E">> >>}
       /\ OverlayTexts(1) = {<< <<"\"", "Head Ass!!!", "\"">>, <<>> >>}
       /\ OverlayTexts(2) = {<< <<"Underground Existence">>, <<"60:00", " Live Set">> >>}
       /\ Len(scenes) = 3
       /\ [k \in 1..3 |-> Val(template).sections[k].duration] = <<3, 22, 5>>
            => [k \in 1..3 |-> scenes[k].duration] = <<3, 22, 5>>

\* the artist-promo template has been compiled for the artist AKILA
C18_Witness ==
  /\ Returned
  /\ Val(template).sections = ArtistPromoSections
  /\ Val(userInputs) = CompileUserInputs
  /\ [k \in 1..3 |-> scenes[k].duration] = <<3, 22, 5>>
  /\ OverlayTexts(2) # {}

\* the brand descriptors processSection appends to a prompt
BrandDescriptors ==
  <<", styled using ", Val(brandStyle).primaryColor, " and ",
    Val(brandStyle).accentColor, " color scheme, ", Val(brandStyle).tone,
    " feeling">>

\* C19: for every image element with a prompt, the prompt passed to the
\* image generator is the element's prompt with every placeholder whose key
\* is in the variable map replaced by its value, followed by the brand's
\* primary colour, accent colour and tone descriptors.
C19_GeneratorPromptResolvedAndStyled ==
  \A c \in externalCalls :
    c.kind = "generateImages"
      => c.args = << SubstituteFrom(
                       Val(template).sections[c.section + 1].elements[c.element].prompt,
                       1, Val(userInputs))
                     \o BrandDescriptors >>

\* C20: a section with a background element of colour c and no image
\* element gives a scene with bgColor c and an imagePath that is empty or
\* the composite written for that section; a section with neither a
\* background nor an image element gives bgColor "#000000" and an empty
\* imagePath.
C20_BackgroundOnlyAndBareSections ==
  Returned =>
    \A k \in 1..Len(scenes) :
      LET section == Val(filledTemplate).sections[k]
      IN  /\ (HasBranch(section, "background") /\ ~HasElement(section, "image"))
               => /\ scenes[k].bgColor = LastBackgroundColor(section.elements)
                  /\ scenes[k].imagePath \in {NoPath, BrandedPath(k - 1)}
          /\ (~HasElement(section, "background") /\ ~HasElement(section, "image"))
               => /\ scenes[k].bgColor = "#000000"
                  /\ scenes[k].imagePath = NoPath

\* a returned compilation with a background-only section of the colour
\* #FFFFFF and a section that has neither a background nor an image
C20_Witness ==
  /\ Returned
  /\ Len(scenes) = 2
  /\ scenes[1].bgColor = "#FFFFFF"
  /\ scenes[1].imagePath = BrandedPath(0)
  /\ ~HasElement(Val(filledTemplate).sections[1], "image")
  /\ ~HasElement(Val(filledTemplate).sections[2], "background")
  /\ ~HasElement(Val(filledTemplate).sections[2], "image")
  /\ scenes[2].bgColor = "#000000"


\* ------------------------------------------------ claims on generateScript
\* the request meets one of the failures: no connection, a status that is
\* not OK, a body that is not JSON, an error field, or no content
ScriptGeneratorFails ==
  LET api == Val(gApi)
  IN  \/ api.network = "fails"
      \/ api.status # 200
      \/ api.json = "fails"
      \/ api.data.error \notin {JsUndefined, JsNull}
      \/ api.data.choices = Null
      \/ Val(api.data.choices) = <<>>
      \/ Val(api.data.choices)[1] \in {Choice(Null), Choice(Some(Message(Null))),
                                      Choice(Some(Message(Some(<<>>))))}

\* C21: generateScript never rejects, and on a status that is not OK, an
\* error field, a response without content or a thrown network or parse
\* error it resolves to the fixed default script, so that its caller goes
\* on with the pipeline.
C21_ScriptFailuresTolerated ==
  /\ gPc # "rejected"
  /\ (gPc \in {"resolved", "images"} /\ ScriptGeneratorFails)
       => gScript = DefaultScript

\* the pipeline went on with the default script after a failure that the
\* catch block caught
C21_Witness ==
  /\ gPc = "images"
  /\ gCaught # "none"
  /\ gScript = DefaultScript


\* ---------------------------------------------------- claims on watcher.js
\* C22: after any finite sequence of change events, once every pending
\* read and write callback has completed without error,
\* updated_template.html holds the current content of base_template.html.
C22_UpdatedHoldsCurrentBase ==
  (wChanges > 0 /\ wReads = {} /\ wWrites = {} /\ ~wFailed)
    => wUpdated = wBase


\* ------------------------------------------- claims on rerunning a compile
\* the existence check of template.ts:398-401 for the section index k, made
\* in a run that started from the directory leftover and has written the
\* files of written
OverlayFound(k, leftover, written) ==
  TextOverlayPath(k) \in leftover \cup written

\* C23: the outcome of processTemplate does not depend on the files an
\* earlier run left in outputDir: every existence check that this run has
\* passed, and the one it has failed, gives the same answer in the run
\* that makes the same writes from any other leftover directory.
C23_OutcomeIndependentOfLeftovers ==
  \A leftover \in LeftoverFiles :
    /\ \A k \in 1..Len(scenes) :
         HasElement(Val(filledTemplate).sections[k], "text")
           => OverlayFound(k - 1, leftover, DOMAIN writtenBy)
    /\ (pc = "thrown" /\ error = "Failed to generate text overlay")
         => ~OverlayFound(sectionIndex, leftover, DOMAIN writtenBy)


\* --------------------------------------- claims on sections of many layers
\* the positions of the elements that take the background branch
BackgroundPositions(elements) ==
  {m \in 1..Len(elements) : ElementBranch(elements[m]) = "background"}

Latest(positions) == CHOOSE m \in positions : \A n \in positions : n <= m

\* C24: elements are processed in their listed order and the last
\* background wins: while the loop stands between two elements bgColor is
\* the colour of the last background element before the loop position,
\* and the scene of a section that lists several background elements with
\* a colour has the colour of the last one listed.
C24_LastBackgroundWins ==
  /\ pc = "elements" =>
       LET done == BackgroundPositions(SubSeq(Section.elements, 1, elementIndex - 1))
       IN  bgColor = IF done = {} THEN ""
                     ELSE Section.elements[Latest(done)].color
  /\ \A k \in 1..Len(scenes) :
       LET elements == Val(filledTemplate).sections[k].elements
       IN  BackgroundPositions(elements) # {}
             => scenes[k].bgColor = elements[Latest(BackgroundPositions(elements))].color

\* a returned compilation whose first section lists two backgrounds of
\* different colours and whose scene has the colour of the second
C24_Witness ==
  /\ Returned
  /\ Len(scenes) >= 1
  /\ LET elements == Val(filledTemplate).sections[1].elements
     IN  /\ Cardinality(BackgroundPositions(elements)) = 2
         /\ elements[1].color # elements[Len(elements)].color
         /\ scenes[1].bgColor = elements[Len(elements)].color

\* the positions of the elements that take the image or background branch
LayerPositions(elements) ==
  {m \in 1..Len(elements) : ElementBranch(elements[m]) \in {"image", "background"}}

\* the writers of section_{i}_branded.png in each branch
BranchWriters(branch) ==
  IF branch = "background" THEN {"background composite"}
  ELSE {"brand filter", "fallback composite"}

\* C25: in a section that lists both an image element and a background
\* element with a colour, the scene's imagePath is section_{i}_branded.png
\* and the content the section left in that file was written by whichever
\* of the two is listed later; the brand-filtered generated image is there
\* only when no background element follows the image element.
C25_LaterLayerDecidesImage ==
  \A k \in 1..Len(scenes) :
    LET elements == Val(filledTemplate).sections[k].elements
        f        == BrandedPath(k - 1)
    IN  (HasBranch(Val(filledTemplate).sections[k], "image")
           /\ HasBranch(Val(filledTemplate).sections[k], "background"))
          => /\ scenes[k].imagePath = f
             /\ f \in DOMAIN writtenBy
             /\ writtenBy[f].section = k - 1
                  => writtenBy[f].writer \in
                       BranchWriters(ElementBranch(elements[Latest(LayerPositions(elements))]))


\* ------------------------------------------ claims on the shipped templates
\* C26: fillTemplate, given a brand style and user inputs, succeeds on
\* every template document shipped in the repository, those with a
\* list-valued content or a prompts list included: it returns a filled
\* template and does not throw.
C26_ShippedTemplatesFill ==
  (fCalls > 0 /\ fBrand # Null /\ fInputs # Null
     /\ Val(fSnapshot) \in ShippedTemplates)
    => (fThrown = "none" /\ fReturned # Null)


\* ------------------------------------------- claims on processAudioUrl
\* C27: processAudioUrl leaves no stray temporary file: when it resolves
\* the downloaded input is deleted and only the returned clip remains;
\* when the download, the probing, the cutting or the deletion of the
\* input fails, neither temporary file remains and the call rejects with
\* the original error.
C27_NoStrayTemporaryFile ==
  /\ aPc = "resolved" =>
       /\ aFiles = {"tempOutput"}
       /\ Val(aResult).clipPath = "tempOutput"
  /\ aPc = "rejected" =>
       /\ aFiles = {}
       /\ Val(aResult).rejected = aError


\* ------------------------------------------- claims on createBrandedVideo
\* the call asks for an artist promo of an artist the database lacks
ArtistMissing ==
  /\ Val(bCall).templateType = "artist-promo"
  /\ Val(bCall).artistName
  /\ Val(bCall).artistData = Null

\* C28: createBrandedVideo releases the clip it created on every path:
\* cleanupClip is never called without a clip nor twice, it has been
\* called exactly once when the call resolves or rejects after
\* processAudioUrl returned a clip, and a call for an artist that is not
\* found rejects before processAudioUrl is called.
C28_ClipCleanedUpExactlyOnce ==
  /\ bCleanups <= 1
  /\ bAudioClip = Null => bCleanups = 0
  /\ (bPc \in {"resolved", "rejected"} /\ bAudioClip # Null) => bCleanups = 1
  /\ (bPc \in {"resolved", "rejected"} /\ ArtistMissing)
       => /\ bPc = "rejected"
          /\ bError = "Artist not found in database"
          /\ bAudioCalls = 0
          /\ bAudioClip = Null

\* a call that created a clip, failed in the encoder and rejected after
\* one cleanup
C28_Witness ==
  /\ bPc = "rejected"
  /\ bError = "createEnhancedVideo rejected"
  /\ bAudioClip # Null
  /\ bCleanups = 1


\* -------------------------------------------- claims on createArtistVideo
\* the outcomes of the try block
TryOutcomes ==
  {"finalVideo", "ffmpeg failed", "renderTextToImage rejected",
   "No images provided for video composition"}

====
